---- MODULE Spec2Model ----
(***************************************************************************)
(* Model of the in-memory key-value database of InMemoryDB                 *)
(* (database/database_service.go, database/ttl_heap.go): the store, the    *)
(* ttl heap, the new-item signal, the store mutex and the ttl cleanup      *)
(* routine, with the client operations Create, Get, GetTTL, Put, Delete;   *)
(* of its persistence (database/database_options.go,                       *)
(* database/database_marshal.go): the append-only file, its replay at      *)
(* startup, the snapshot and its load; and of the pub/sub broker           *)
(* (handler/http_handler.go).                                              *)
(***************************************************************************)
EXTENDS Integers, Sequences, FiniteSets, TLC

\* ---------------------------------------------------------------- bounds
MaxTime == 1        \* the clock (Unix seconds) runs over 0..MaxTime
MaxHeap == 2        \* cap on the number of entries of the ttl heap
MaxAof  == 2        \* cap on the lines client calls leave in the AOF
MaxLines == 3       \* cap on the lines of a startup AOF
MaxPublish == 2     \* cap on the publish requests of concurrent publishers
MaxDrop == 1        \* publish requests beyond the capacity of a mailbox

\* make(chan string, 10): the capacity of a subscriber's mailbox
MailboxCap == 10

\* the inputs of the client calls: keys (also the ids Create can generate),
\* values, and relative ttls in seconds (0 is admissible)
Keys   == {"k1", "k2"}
Values == {"v1", "v2"}
OneValue == {"v1"}
OneKey == {"k1"}
Ttls   == {0, 1}

\* ------------------------------------------------------------- *int64
Nil    == [isNil |-> TRUE, val |-> 0]
Ptr(x) == [isNil |-> FALSE, val |-> x]
TtlArgs == {Nil} \cup {Ptr(t) : t \in Ttls}

VARIABLES
    database,   \* dbStore: key -> databaseEntry, a function on the stored keys
    ttl,        \* ttlHeap: the heap's array, a sequence of ttlHeapData
    newItem,    \* number of signals buffered in the newItem channel (cap 1)
    mu,         \* sync.RWMutex: "unlocked", "locked" (writer), "rlocked"
    now,        \* time.Now().Unix()
    cleaner,    \* position of the ttlCleanup goroutine and its timer
    reader,     \* a GetTTL call between its two reads of the clock
    resp,       \* the last completed client call and what it returned
    shouldAofPersist,   \* settings.shouldAofPersist
    aof,        \* the AOF persistence file: its lines, each as its words
    writer,     \* per client, a Create, Put or Delete followed statement by statement
    evicting,   \* the key the cleanup routine has logged and not yet deleted, or ""
    applied,    \* history: the lines of the in-memory changes, in their order
    startupFile,    \* the file WithInitialData reads
    scanned,    \* the number of lines of startupFile the scanner has read
    snapshotFile,   \* the database persistence file: the JSON document
    phase,      \* "loading", "running", "down" (after Shutdown), "loaded"
    channels,   \* broker.channels: channel -> the list of its mailboxes
    box,        \* per subscribe request: its mailbox c, its context, its handler
    pubs,       \* per publisher: its publish request, and where its loop is
    brokerMu,   \* broker.mu: the number of holders of the read lock
    published,  \* the number of publish requests so far
    completed,  \* history: the publish requests that have returned
    delivered,  \* history: per mailbox, the messages written to the client
    panicked,   \* a send on a closed mailbox happened
    http,       \* the request a key or ttl handler works on, and its last response
    disk,       \* the file system: "ok", or how the next file operations fail
    persister   \* position of the persistDatabaseCycle goroutine

dbVars == <<database, ttl, newItem, mu, now, cleaner, reader, resp>>
stepVars == <<writer, evicting, applied>>
startVars == <<startupFile, scanned, snapshotFile, phase>>
brokerVars == <<channels, box, pubs, brokerMu, published, completed, delivered, panicked>>
envVars == <<http, disk, persister>>
vars == <<dbVars, shouldAofPersist, aof, stepVars, startVars, brokerVars, envVars>>

databaseEntry(v, t) == [value |-> v, ttl |-> t]
ttlHeapData(k, e)   == [key |-> k, ttl |-> e]

\* ------------------------------------------------------- store helpers
load(db, key) == key \in DOMAIN db

delete(db, key) == [k \in (DOMAIN db) \ {key} |-> db[k]]

\* store that keeps an entry already there
store_keepExisting(db, key, d) ==
    [k \in (DOMAIN db) \cup {key} |-> IF k \in DOMAIN db THEN db[k] ELSE d]

store(db, key, d) == [k \in (DOMAIN db) \cup {key} |-> IF k = key THEN d ELSE db[k]]

loadOrStore(db, key, d) == IF load(db, key) THEN db ELSE store(db, key, d)

\* ----------------------------------------------------------- ttl heap
\* an order that puts the later expiry first
Less_greater(h, i, j) == h[i + 1].ttl > h[j + 1].ttl

\* positions are 0-based as in the code; the sequence is 1-based
Less(h, i, j) == h[i + 1].ttl < h[j + 1].ttl

Swap(h, i, j) == [h EXCEPT ![i + 1] = h[j + 1], ![j + 1] = h[i + 1]]

RECURSIVE up(_, _)
up(h, j) ==
    LET i == (j - 1) \div 2
    IN  IF j = 0 \/ i = j \/ ~Less(h, j, i) THEN h
        ELSE up(Swap(h, i, j), i)

RECURSIVE down(_, _, _)
down(h, i, n) ==
    LET j1 == 2 * i + 1
        j2 == j1 + 1
        j  == IF j2 < n /\ Less(h, j2, j1) THEN j2 ELSE j1
    IN  IF j1 >= n THEN h
        ELSE IF ~Less(h, j, i) THEN h
        ELSE down(Swap(h, i, j), j, n)

\* a push that leaves the heap as it is
HeapPush_none(h, x) == h

\* heap.Push: append, then up from the last position
HeapPush(h, x) == up(Append(h, x), Len(h))

\* heap.Pop: swap the root with the last element, sift down, cut the last
HeapPopped(h) == h[1]
HeapPop(h) ==
    LET n == Len(h) - 1
    IN  SubSeq(down(Swap(h, 0, n), 0, n), 1, n)

Peak(h) == h[1]

\* ------------------------------------------------------------ AOF lines
\* strings.Split(str, " "): a string is modelled by its space-free words
Fields(str) == IF str = "a b" THEN <<"a", "b">> ELSE <<str>>

\* %v of an integer, over the numbers that occur
Numbers == -1..(MaxTime + 2)
Itoa(n) == ToString(n)

\* fmt.Sprintf(`PUT %s %s %v`, key, value, ttl or -1) and `DELETE %s`
PutLine(key, value, t) ==
    <<"PUT">> \o Fields(key) \o Fields(value)
        \o <<IF t.isNil THEN Itoa(-1) ELSE Itoa(t.val)>>
DeleteLine(key) == <<"DELETE">> \o Fields(key)

\* appendToAof that puts the line before the others
appendToAof_first(should, f, line) == IF should THEN <<line>> \o f ELSE f

\* appendToAof: nothing without AOF persistence (line 276), nothing when
\* OpenFile or WriteString fails (lines 281-283, 294-296; a write that fails
\* is taken to leave nothing in the file), else the line goes last
appendToAof(should, f, line) == IF should /\ disk = "ok" THEN Append(f, line) ELSE f

\* ----------------------------------------------------------- AOF replay
\* Atoi that takes what is not a number for 0
Atoi_zero(str) ==
    IF \E n \in Numbers : Itoa(n) = str
       THEN [ok |-> TRUE, val |-> CHOOSE n \in Numbers : Itoa(n) = str]
       ELSE [ok |-> TRUE, val |-> 0]

\* strconv.Atoi
Atoi(str) ==
    IF \E n \in Numbers : Itoa(n) = str
       THEN [ok |-> TRUE, val |-> CHOOSE n \in Numbers : Itoa(n) = str]
       ELSE [ok |-> FALSE, val |-> 0]

\* one iteration of the scanner loop of WithInitialData on the words args of
\* a line: the store it leaves (the heap is not touched)
ReplayLine(db, args) ==
    IF args[1] = "PUT"
       THEN IF Len(args) # 4 THEN db
            ELSE IF args[4] # "-1"
            THEN IF ~Atoi(args[4]).ok THEN db
                 ELSE store(db, args[2], databaseEntry(args[3], Ptr(Atoi(args[4]).val)))
            ELSE store(db, args[2], databaseEntry(args[3], Nil))
    ELSE IF args[1] = "DELETE"
       THEN IF Len(args) # 2 THEN db ELSE delete(db, args[2])
    ELSE db

\* the store after the scanner has read all of lines
RECURSIVE Replay(_, _)
Replay(db, lines) ==
    IF lines = <<>> THEN db
    ELSE Replay(ReplayLine(db, Head(lines)), Tail(lines))

\* client calls stop once the AOF holds MaxAof lines
AofRoom == shouldAofPersist => Len(aof) < MaxAof

\* --------------------------------------------------------------- reads
\* Get that still reports an entry whose expiry is the current second
GetLoaded_inclusive(db, t, key) ==
    load(db, key) /\ (db[key].ttl.isNil \/ db[key].ttl.val >= t)

\* the condition of Get: the entry is stored and has no ttl or a ttl in the future
GetLoaded(db, t, key) ==
    load(db, key) /\ (db[key].ttl.isNil \/ db[key].ttl.val > t)

\* what Get returns: (value, true), or ("", false)
GetReturn(db, t, key) ==
    IF GetLoaded(db, t, key) THEN <<db[key].value, TRUE>> ELSE <<"", FALSE>>

\* GetTTL that still reports an entry whose expiry is the current second
GetTTLMissing_strict(db, t, key) ==
    ~load(db, key) \/ (~db[key].ttl.isNil /\ db[key].ttl.val < t)

\* the first condition of GetTTL: missing, or the ttl has passed
GetTTLMissing(db, t, key) ==
    ~load(db, key) \/ (~db[key].ttl.isNil /\ db[key].ttl.val <= t)

\* what a call returned: the boolean, and the key, value or ttl when it returns one
\* (key is the key of the call, for Create the generated one)
Return(op, key, ok, value, t) == [op |-> op, key |-> key, ok |-> ok, value |-> value, ttl |-> t]

NoResp == Return("none", "", FALSE, "", Nil)

\* the clients whose write calls are followed statement by statement
Clients == {"c1", "c2"}
OneClient == {"c1"}

\* no write call is in progress / no snapshot has been written
NoCall == [pc |-> "idle", op |-> "none", key |-> "", value |-> "", ttl |-> Nil]
NoWriter == [c \in Clients |-> NoCall]
NoFile == [written |-> FALSE, dbStore |-> <<>>, ttlHeap |-> <<>>]

\* ------------------------------------------------------- pub/sub broker
ChannelNames == {"c1", "c2"}
OneChannel == {"c1"}
\* the subscribe requests, each with its mailbox, in the order they come
Boxes == {1, 2}
Publishers == {"p1", "p2"}
OnePublisher == {"p1"}

\* a subscribe request that has not come yet; no publish request in progress
NoBox == [chan |-> "none", buf |-> <<>>, channel |-> "", ctx |-> "live", handler |-> "none"]
\* (a message stands for the request that published it: its number, the
\* requests that had returned when it came, its channel)
NoPublish == [pc |-> "idle", channel |-> "",
              message |-> [id |-> 0, after |-> {}, channel |-> ""],
              list |-> <<>>, i |-> 0]

\* the handler Wrapper with no subscriber and no request
BrokerInit ==
    /\ channels = [ch \in ChannelNames |-> <<>>]
    /\ box = [b \in Boxes |-> NoBox]
    /\ pubs = [p \in Publishers |-> NoPublish]
    /\ brokerMu = 0
    /\ published = 0
    /\ completed = {}
    /\ delivered = [b \in Boxes |-> <<>>]
    /\ panicked = FALSE

\* ------------------------------------------------- HTTP key and ttl routes
\* a response body: the error envelope, the empty object {}, or the object
\* with the key and the value or ttl of the route
Body(kind, error, key, value, t) ==
    [kind |-> kind, error |-> error, key |-> key, value |-> value, ttl |-> t]
NoBody == Body("none", "", "", "", Nil)

\* no request is being handled and none has been answered
NoRequest == [pc |-> "idle", route |-> "", key |-> "", value |-> "", ttl |-> Nil,
              status |-> 0, body |-> NoBody]

\* no request in progress, a file system that works, the snapshot routine
\* waiting for its period
EnvInit ==
    /\ http = NoRequest
    /\ disk = "ok"
    /\ persister = "idle"

\* the variables the calls on a running database leave alone
others == <<shouldAofPersist, stepVars, startVars, brokerVars, envVars>>

Init ==
    /\ database = [k \in {} |-> databaseEntry("", Nil)]
    /\ ttl = <<>>
    /\ newItem = 0
    /\ mu = "unlocked"
    /\ now = 0
    /\ cleaner = [pc |-> "start", timer |-> 0]
    /\ reader = [pc |-> "idle", key |-> "", ttl |-> 0]
    /\ resp = NoResp
    /\ shouldAofPersist = FALSE
    /\ aof = <<>>
    /\ writer = NoWriter
    /\ evicting = ""
    /\ applied = <<>>
    /\ startupFile = <<>>
    /\ scanned = 0
    /\ snapshotFile = NoFile
    /\ BrokerInit
    /\ EnvInit
    /\ phase = "running"

\* expiry that keeps the relative ttl, as the AOF record does
expiry_relative(t, n) == IF t.isNil THEN Nil ELSE Ptr(t.val)

\* expiry one second late
expiry_late(t, n) == IF t.isNil THEN Nil ELSE Ptr(t.val + n + 1)

\* the absolute expiry of a write: nil without ttl, else ttl + time.Now().Unix()
expiry(t, n) == IF t.isNil THEN Nil ELSE Ptr(t.val + n)

\* a send that is dropped even when no signal is pending
Notify_dropped(n) == n

\* a send into a channel that takes every signal
Notify_count(n) == n + 1

\* the non-blocking send on newItem: dropped when a signal is pending
Notify(n) == IF n = 0 THEN 1 ELSE n

\* ------------------------------------------------------ client operations
Create(value, t, id) ==
    /\ mu = "unlocked"
    /\ LET e        == expiry(t, now)
           newEntry == databaseEntry(value, e)
           loaded   == load(database, id)
       IN  /\ (~t.isNil /\ ~loaded) => Len(ttl) < MaxHeap
           /\ AofRoom
           /\ resp' = Return("Create", id, ~loaded, "", Nil)
           /\ aof' = appendToAof(shouldAofPersist, aof, PutLine(id, value, t))
           /\ UNCHANGED <<mu, now, cleaner, reader, others>>
           /\ database' = loadOrStore(database, id, newEntry)
           /\ IF ~t.isNil /\ ~loaded
                 THEN /\ ttl' = HeapPush(ttl, ttlHeapData(id, e.val))
                      /\ newItem' = Notify(newItem)
                 ELSE UNCHANGED <<ttl, newItem>>

\* a Get that removes the expired entry it finds
Get_evicting(key) ==
    /\ mu # "locked"
    /\ LET r == GetReturn(database, now, key)
       IN  resp' = Return("Get", key, r[2], r[1], Nil)
    /\ database' = IF load(database, key) /\ ~GetLoaded(database, now, key)
                      THEN delete(database, key) ELSE database
    /\ UNCHANGED <<ttl, newItem, mu, now, cleaner, reader, aof, others>>

\* Get, lines 148-157
Get(key) ==
    /\ mu # "locked"
    /\ LET r == GetReturn(database, now, key)
       IN  resp' = Return("Get", key, r[2], r[1], Nil)
    /\ UNCHANGED <<database, ttl, newItem, mu, now, cleaner, reader, aof, others>>

\* GetTTL up to its first read of the clock; it returns at once unless the
\* entry has a ttl in the future, which it computes from a second read
GetTTLLoad(key) ==
    /\ mu = "unlocked"
    /\ reader.pc = "idle"
    /\ IF GetTTLMissing(database, now, key)
          THEN /\ resp' = Return("GetTTL", key, FALSE, "", Nil)
               /\ UNCHANGED <<mu, reader>>
          ELSE IF ~database[key].ttl.isNil
          THEN /\ reader' = [pc |-> "remaining", key |-> key, ttl |-> database[key].ttl.val]
               /\ mu' = "rlocked"
               /\ UNCHANGED resp
          ELSE /\ resp' = Return("GetTTL", key, TRUE, "", Nil)
               /\ UNCHANGED <<mu, reader>>
    /\ UNCHANGED <<database, ttl, newItem, now, cleaner, aof, others>>

GetTTLRemaining ==
    /\ reader.pc = "remaining"
    /\ resp' = Return("GetTTL", reader.key, TRUE, "", Ptr(reader.ttl - now))
    /\ reader' = [pc |-> "idle", key |-> "", ttl |-> 0]
    /\ mu' = "unlocked"
    /\ UNCHANGED <<database, ttl, newItem, now, cleaner, aof, others>>

Put(key, value, t) ==
    /\ mu = "unlocked"
    /\ ~t.isNil => Len(ttl) < MaxHeap
    /\ AofRoom
    /\ LET e        == expiry(t, now)
           newEntry == databaseEntry(value, e)
           loaded   == load(database, key)
       IN  /\ resp' = Return("Put", key, loaded, "", Nil)
           /\ aof' = appendToAof(shouldAofPersist, aof, PutLine(key, value, t))
           /\ UNCHANGED <<mu, now, cleaner, reader, others>>
           /\ database' = store(database, key, newEntry)
           /\ IF ~t.isNil
                 THEN /\ ttl' = HeapPush(ttl, ttlHeapData(key, e.val))
                      /\ newItem' = Notify(newItem)
                 ELSE UNCHANGED <<ttl, newItem>>

\* Delete that leaves alone an entry Get does not report
Delete_onlyPresent(key) ==
    /\ mu = "unlocked"
    /\ AofRoom
    /\ resp' = Return("Delete", key, load(database, key), "", Nil)
    /\ UNCHANGED <<ttl, newItem, mu, now, cleaner, reader, others>>
    /\ aof' = appendToAof(shouldAofPersist, aof, DeleteLine(key))
    /\ database' = IF GetLoaded(database, now, key) THEN delete(database, key) ELSE database

Delete(key) ==
    /\ mu = "unlocked"
    /\ AofRoom
    /\ resp' = Return("Delete", key, load(database, key), "", Nil)
    /\ UNCHANGED <<ttl, newItem, mu, now, cleaner, reader, others>>
    /\ aof' = appendToAof(shouldAofPersist, aof, DeleteLine(key))
    /\ database' = delete(database, key)

\* ------------------------------------------------------------ ttlCleanup
\* lines 227-240: under the lock, look at the heap and compute the delay
CleanupPeek ==
    /\ cleaner.pc = "start"
    /\ mu = "unlocked"
    /\ IF Len(ttl) = 0
          THEN cleaner' = [pc |-> "recv", timer |-> 0]
          ELSE LET next  == Peak(ttl).ttl
                   delay == next - now
               IN  IF delay > 0
                      THEN cleaner' = [pc |-> "select", timer |-> now + delay]
                      ELSE cleaner' = [pc |-> "lock", timer |-> 0]
    /\ UNCHANGED <<database, ttl, newItem, mu, now, reader, resp, aof, others>>

\* line 231: <-i.newItem with an empty heap
CleanupRecv ==
    /\ cleaner.pc = "recv"
    /\ newItem = 1
    /\ newItem' = 0
    /\ cleaner' = [pc |-> "start", timer |-> 0]
    /\ UNCHANGED <<database, ttl, mu, now, reader, resp, aof, others>>

\* line 245: the timer of the select fires
CleanupTimer ==
    /\ cleaner.pc = "select"
    /\ now >= cleaner.timer
    /\ cleaner' = [pc |-> "lock", timer |-> 0]
    /\ UNCHANGED <<database, ttl, newItem, mu, now, reader, resp, aof, others>>

\* a select that takes the signal and goes on waiting for its timer
CleanupNewItem_stay ==
    /\ cleaner.pc = "select"
    /\ newItem = 1
    /\ newItem' = 0
    /\ UNCHANGED <<database, ttl, mu, now, cleaner, reader, resp, aof, others>>

\* line 246: the select receives the new-item signal
CleanupNewItem ==
    /\ cleaner.pc = "select"
    /\ newItem = 1
    /\ newItem' = 0
    /\ cleaner' = [pc |-> "start", timer |-> 0]
    /\ UNCHANGED <<database, ttl, mu, now, reader, resp, aof, others>>

\* line 252
CleanupLock ==
    /\ cleaner.pc = "lock"
    /\ mu = "unlocked"
    /\ mu' = "locked"
    /\ cleaner' = [pc |-> "drain", timer |-> 0]
    /\ UNCHANGED <<database, ttl, newItem, now, reader, resp, aof, others>>

\* the test without the comparison of the ttls
Unmodified_keyOnly(db, key, e) == load(db, key)

\* the test of line 265: the key is stored and its ttl is the popped one
Unmodified(db, key, e) ==
    load(db, key) /\ ~db[key].ttl.isNil /\ db[key].ttl.val = e

\* an iteration that pops without looking at the time left
CleanupPop_early ==
    /\ cleaner.pc = "drain"
    /\ Len(ttl) > 0
    /\ LET heapData == HeapPopped(ttl)
       IN  /\ ttl' = HeapPop(ttl)
           /\ IF Unmodified(database, heapData.key, heapData.ttl)
                 THEN /\ aof' = appendToAof(shouldAofPersist, aof, DeleteLine(heapData.key))
                      /\ database' = delete(database, heapData.key)
                 ELSE UNCHANGED <<aof, database>>
    /\ UNCHANGED <<newItem, mu, now, cleaner, reader, resp, others>>

\* one iteration of the loop of lines 253-269
CleanupPop ==
    /\ cleaner.pc = "drain"
    /\ IF Len(ttl) > 0 THEN Peak(ttl).ttl - now <= 0 ELSE FALSE
    /\ LET heapData == HeapPopped(ttl)
       IN  /\ ttl' = HeapPop(ttl)
           /\ IF Unmodified(database, heapData.key, heapData.ttl)
                 THEN /\ aof' = appendToAof(shouldAofPersist, aof, DeleteLine(heapData.key))
                      /\ database' = delete(database, heapData.key)
                 ELSE UNCHANGED <<aof, database>>
    /\ UNCHANGED <<newItem, mu, now, cleaner, reader, resp, others>>

\* an end of the drain that goes back to the start of the loop with the lock
CleanupUnlock_keep ==
    /\ cleaner.pc = "drain"
    /\ IF Len(ttl) = 0 THEN TRUE ELSE Peak(ttl).ttl - now > 0
    /\ cleaner' = [pc |-> "start", timer |-> 0]
    /\ UNCHANGED <<database, ttl, newItem, mu, now, reader, resp, aof, others>>

\* the loop ends (empty heap, or line 256) and line 270 unlocks
CleanupUnlock ==
    /\ cleaner.pc = "drain"
    /\ IF Len(ttl) = 0 THEN TRUE ELSE Peak(ttl).ttl - now > 0
    /\ mu' = "unlocked"
    /\ cleaner' = [pc |-> "start", timer |-> 0]
    /\ UNCHANGED <<database, ttl, newItem, now, reader, resp, aof, others>>

\* ----------------------------------------------------------------- clock
Tick ==
    /\ now < MaxTime
    /\ now' = now + 1
    /\ UNCHANGED <<database, ttl, newItem, mu, cleaner, reader, resp, aof, others>>

Cleanup ==
    \/ CleanupPeek
    \/ CleanupRecv
    \/ CleanupTimer
    \/ CleanupNewItem
    \/ CleanupLock
    \/ CleanupPop
    \/ CleanupUnlock

Next ==
    \/ \E value \in Values, t \in TtlArgs, id \in Keys : Create(value, t, id)
    \/ \E key \in Keys : Get(key)
    \/ \E key \in Keys : GetTTLLoad(key)
    \/ GetTTLRemaining
    \/ \E key \in Keys, value \in Values, t \in TtlArgs : Put(key, value, t)
    \/ \E key \in Keys : Delete(key)
    \/ CleanupPeek
    \/ CleanupRecv
    \/ CleanupTimer
    \/ CleanupNewItem
    \/ CleanupLock
    \/ CleanupPop
    \/ CleanupUnlock
    \/ Tick

Spec == Init /\ [][Next]_vars

\* the same system with every write carrying the same value, for the
\* properties in which the values play no part
NextOneValue ==
    \/ \E value \in OneValue, t \in TtlArgs, id \in Keys : Create(value, t, id)
    \/ \E key \in Keys : Get(key)
    \/ \E key \in Keys : GetTTLLoad(key)
    \/ GetTTLRemaining
    \/ \E key \in Keys, value \in OneValue, t \in TtlArgs : Put(key, value, t)
    \/ \E key \in Keys : Delete(key)
    \/ CleanupPeek
    \/ CleanupRecv
    \/ CleanupTimer
    \/ CleanupNewItem
    \/ CleanupLock
    \/ CleanupPop
    \/ CleanupUnlock
    \/ Tick

SpecOneValue == Init /\ [][NextOneValue]_vars

\* The cleanup goroutine is always scheduled; a Lock of the RWMutex is not
\* starved by readers (a pending Lock holds back new RLocks), hence strong
\* fairness for the two steps that lock; a GetTTL in progress returns.
Fairness ==
    /\ SF_vars(CleanupPeek)
    /\ SF_vars(CleanupLock)
    /\ WF_vars(CleanupRecv)
    /\ WF_vars(CleanupTimer)
    /\ WF_vars(CleanupNewItem)
    /\ WF_vars(CleanupPop)
    /\ WF_vars(CleanupUnlock)
    /\ WF_vars(GetTTLRemaining)

FairSpec == SpecOneValue /\ Fairness

\* ------------------------------------------------ with AOF persistence
\* the values of the writes when the AOF is kept: one of them has a space
AofValues == {"v1", "a b"}

\* the database constructed with WithAofPersistence()
InitAof ==
    /\ database = [k \in {} |-> databaseEntry("", Nil)]
    /\ ttl = <<>>
    /\ newItem = 0
    /\ mu = "unlocked"
    /\ now = 0
    /\ cleaner = [pc |-> "start", timer |-> 0]
    /\ reader = [pc |-> "idle", key |-> "", ttl |-> 0]
    /\ resp = NoResp
    /\ shouldAofPersist = TRUE
    /\ aof = <<>>
    /\ writer = NoWriter
    /\ evicting = ""
    /\ applied = <<>>
    /\ startupFile = <<>>
    /\ scanned = 0
    /\ snapshotFile = NoFile
    /\ BrokerInit
    /\ EnvInit
    /\ phase = "running"

NextAof ==
    \/ \E value \in AofValues, t \in TtlArgs, id \in Keys : Create(value, t, id)
    \/ \E key \in Keys, value \in AofValues, t \in TtlArgs : Put(key, value, t)
    \/ \E key \in Keys : Delete(key)
    \/ CleanupPeek
    \/ CleanupRecv
    \/ CleanupTimer
    \/ CleanupNewItem
    \/ CleanupLock
    \/ CleanupPop
    \/ CleanupUnlock
    \/ Tick

AofSpec == InitAof /\ [][NextAof]_vars

\* ------------------------- the writes with AOF, statement by statement
\* a Lock that does not wait for the holder
Unlocked_always(m) == TRUE

\* i.mu.Lock() returns when nobody holds the mutex
Unlocked(m) == m = "unlocked"

\* lines 117-120 of Create, 181 of Put, 214 of Delete: the call has the lock
CallLock(c, op, key, value, t) ==
    /\ writer[c].pc = "idle"
    /\ Unlocked(mu)
    /\ AofRoom
    /\ ~t.isNil => Len(ttl) < MaxHeap
    /\ mu' = "locked"
    /\ writer' = [writer EXCEPT ![c] =
                     [pc |-> "locked", op |-> op, key |-> key, value |-> value, ttl |-> t]]
    /\ UNCHANGED <<database, ttl, newItem, now, cleaner, reader, resp>>
    /\ UNCHANGED <<shouldAofPersist, aof, evicting, applied, startVars, brokerVars, envVars>>

\* lines 184-188 of Put
PutAppend(c) ==
    /\ writer[c].pc = "locked" /\ writer[c].op = "Put"
    /\ aof' = appendToAof(shouldAofPersist, aof,
                          PutLine(writer[c].key, writer[c].value, writer[c].ttl))
    /\ writer' = [writer EXCEPT ![c].pc = "appended"]
    /\ UNCHANGED <<dbVars, shouldAofPersist, evicting, applied, startVars, brokerVars, envVars>>

\* lines 190-209 of Put, and the deferred Unlock
PutStore(c) ==
    /\ writer[c].pc = "appended" /\ writer[c].op = "Put"
    /\ LET key      == writer[c].key
           t        == writer[c].ttl
           e        == expiry(t, now)
           newEntry == databaseEntry(writer[c].value, e)
           loaded   == load(database, key)
       IN  /\ resp' = Return("Put", key, loaded, "", Nil)
           /\ database' = store(database, key, newEntry)
           /\ applied' = Append(applied, PutLine(key, writer[c].value, t))
           /\ IF ~t.isNil
                 THEN /\ ttl' = HeapPush(ttl, ttlHeapData(key, e.val))
                      /\ newItem' = Notify(newItem)
                 ELSE UNCHANGED <<ttl, newItem>>
    /\ mu' = "unlocked"
    /\ writer' = [writer EXCEPT ![c] = NoCall]
    /\ UNCHANGED <<now, cleaner, reader, shouldAofPersist, aof, evicting, startVars, brokerVars, envVars>>

\* line 217 of Delete
DeleteAppend(c) ==
    /\ writer[c].pc = "locked" /\ writer[c].op = "Delete"
    /\ aof' = appendToAof(shouldAofPersist, aof, DeleteLine(writer[c].key))
    /\ writer' = [writer EXCEPT ![c].pc = "appended"]
    /\ UNCHANGED <<dbVars, shouldAofPersist, evicting, applied, startVars, brokerVars, envVars>>

\* lines 219-220 of Delete, and the deferred Unlock
DeleteStore(c) ==
    /\ writer[c].pc = "appended" /\ writer[c].op = "Delete"
    /\ resp' = Return("Delete", writer[c].key, load(database, writer[c].key), "", Nil)
    /\ database' = delete(database, writer[c].key)
    /\ applied' = Append(applied, DeleteLine(writer[c].key))
    /\ mu' = "unlocked"
    /\ writer' = [writer EXCEPT ![c] = NoCall]
    /\ UNCHANGED <<ttl, newItem, now, cleaner, reader, shouldAofPersist, aof, evicting, startVars, brokerVars, envVars>>

\* lines 121-136 of Create
CreateStore(c) ==
    /\ writer[c].pc = "locked" /\ writer[c].op = "Create"
    /\ LET id       == writer[c].key
           t        == writer[c].ttl
           e        == expiry(t, now)
           newEntry == databaseEntry(writer[c].value, e)
           loaded   == load(database, id)
       IN  /\ database' = loadOrStore(database, id, newEntry)
           /\ applied' = Append(applied, PutLine(id, writer[c].value, t))
           /\ writer' = [writer EXCEPT ![c].pc = IF loaded THEN "loaded" ELSE "stored"]
           /\ IF ~t.isNil /\ ~loaded
                 THEN /\ ttl' = HeapPush(ttl, ttlHeapData(id, e.val))
                      /\ newItem' = Notify(newItem)
                 ELSE UNCHANGED <<ttl, newItem>>
    /\ UNCHANGED <<mu, now, cleaner, reader, resp, shouldAofPersist, aof, evicting, startVars, brokerVars, envVars>>

\* lines 138-144 of Create, and the deferred Unlock
CreateAppend(c) ==
    /\ writer[c].pc \in {"loaded", "stored"} /\ writer[c].op = "Create"
    /\ aof' = appendToAof(shouldAofPersist, aof,
                          PutLine(writer[c].key, writer[c].value, writer[c].ttl))
    /\ resp' = Return("Create", writer[c].key, writer[c].pc = "stored", "", Nil)
    /\ mu' = "unlocked"
    /\ writer' = [writer EXCEPT ![c] = NoCall]
    /\ UNCHANGED <<database, ttl, newItem, now, cleaner, reader>>
    /\ UNCHANGED <<shouldAofPersist, evicting, applied, startVars, brokerVars, envVars>>

\* lines 254-266 of an iteration that evicts: the pop, the test, the append
CleanupPopAppend ==
    /\ cleaner.pc = "drain" /\ evicting = ""
    /\ IF Len(ttl) > 0 THEN Peak(ttl).ttl - now <= 0 ELSE FALSE
    /\ Unmodified(database, HeapPopped(ttl).key, HeapPopped(ttl).ttl)
    /\ ttl' = HeapPop(ttl)
    /\ aof' = appendToAof(shouldAofPersist, aof, DeleteLine(HeapPopped(ttl).key))
    /\ evicting' = HeapPopped(ttl).key
    /\ UNCHANGED <<database, newItem, mu, now, cleaner, reader, resp>>
    /\ UNCHANGED <<shouldAofPersist, writer, applied, startVars, brokerVars, envVars>>

\* line 267
CleanupPopDelete ==
    /\ cleaner.pc = "drain" /\ evicting # ""
    /\ database' = delete(database, evicting)
    /\ applied' = Append(applied, DeleteLine(evicting))
    /\ evicting' = ""
    /\ UNCHANGED <<ttl, newItem, mu, now, cleaner, reader, resp>>
    /\ UNCHANGED <<shouldAofPersist, aof, writer, startVars, brokerVars, envVars>>

\* lines 254-265 of an iteration whose heap entry is stale
CleanupPopStale ==
    /\ cleaner.pc = "drain" /\ evicting = ""
    /\ IF Len(ttl) > 0 THEN Peak(ttl).ttl - now <= 0 ELSE FALSE
    /\ ~Unmodified(database, HeapPopped(ttl).key, HeapPopped(ttl).ttl)
    /\ ttl' = HeapPop(ttl)
    /\ UNCHANGED <<database, newItem, mu, now, cleaner, reader, resp, aof, others>>

NextAofSteps ==
    \/ \E c \in Clients, value \in OneValue, t \in TtlArgs, id \in Keys :
          CallLock(c, "Create", id, value, t)
    \/ \E c \in Clients, key \in Keys, value \in OneValue, t \in TtlArgs :
          CallLock(c, "Put", key, value, t)
    \/ \E c \in Clients, key \in Keys : CallLock(c, "Delete", key, "", Nil)
    \/ \E c \in Clients : CreateStore(c)
    \/ \E c \in Clients : CreateAppend(c)
    \/ \E c \in Clients : PutAppend(c)
    \/ \E c \in Clients : PutStore(c)
    \/ \E c \in Clients : DeleteAppend(c)
    \/ \E c \in Clients : DeleteStore(c)
    \/ CleanupPeek
    \/ CleanupRecv
    \/ CleanupTimer
    \/ CleanupNewItem
    \/ CleanupLock
    \/ CleanupPopAppend
    \/ CleanupPopDelete
    \/ CleanupPopStale
    \/ evicting = "" /\ CleanupUnlock
    \/ Tick

AofStepSpec == InitAof /\ [][NextAofSteps]_vars

\* ------------------------------------------- startup from an AOF file
\* the lines a startup file is made of: well-formed PUT and DELETE lines,
\* a PUT with five words, a PUT whose ttl is no number, a DELETE with three
\* words, and an empty line
Lines == {
    <<"PUT", "k1", "v1", "-1">>,
    <<"PUT", "k1", "v2", "1">>,
    <<"PUT", "k2", "v1", "0">>,
    <<"PUT", "k1", "a", "b", "-1">>,
    <<"PUT", "k2", "v2", "x">>,
    <<"DELETE", "k1">>,
    <<"DELETE", "k2", "k1">>,
    <<"">> }

Files == UNION {[1..n -> Lines] : n \in 0..MaxLines}

\* NewInMemoryDatabase(WithInitialData(file, false)) before the option runs
InitReplay ==
    /\ database = [k \in {} |-> databaseEntry("", Nil)]
    /\ ttl = <<>>
    /\ newItem = 0
    /\ mu = "unlocked"
    /\ now = 0
    /\ cleaner = [pc |-> "start", timer |-> 0]
    /\ reader = [pc |-> "idle", key |-> "", ttl |-> 0]
    /\ resp = NoResp
    /\ shouldAofPersist = FALSE
    /\ aof = <<>>
    /\ writer = NoWriter
    /\ evicting = ""
    /\ applied = <<>>
    /\ startupFile \in Files
    /\ scanned = 0
    /\ snapshotFile = NoFile
    /\ BrokerInit
    /\ EnvInit
    /\ phase = "loading"

\* database_options.go lines 110-143: the scanner reads the next line
ReplayScan ==
    /\ phase = "loading"
    /\ scanned < Len(startupFile)
    /\ database' = ReplayLine(database, startupFile[scanned + 1])
    /\ scanned' = scanned + 1
    /\ UNCHANGED <<ttl, newItem, mu, now, cleaner, reader, resp>>
    /\ UNCHANGED <<shouldAofPersist, aof, stepVars, startupFile, snapshotFile, phase, brokerVars, envVars>>

\* the scanner is at the end of the file: the option returns nil and
\* NewInMemoryDatabase starts the cleanup routine
ReplayDone ==
    /\ phase = "loading"
    /\ scanned = Len(startupFile)
    /\ phase' = "running"
    /\ UNCHANGED <<dbVars, shouldAofPersist, aof, stepVars, startupFile, scanned, snapshotFile, brokerVars, envVars>>

NextReplay ==
    \/ ReplayScan
    \/ ReplayDone
    \/ phase = "running" /\ \E key \in Keys : Get(key)
    \/ phase = "running" /\ CleanupPeek
    \/ phase = "running" /\ Tick

ReplaySpec == InitReplay /\ [][NextReplay]_vars

\* ------------------------------------------------------------ snapshot
\* a JSON number or null
JsonNull == [null |-> TRUE, num |-> 0]
JsonNum(n) == [null |-> FALSE, num |-> n]

\* the order in which encoding/json writes the keys of a map: sorted
KeyOrder == <<"k1", "k2">>

\* InMemoryDatabase.MarshalJSON with those of databaseEntry and ttlHeapData:
\* the members of dbStore in key order, each with its value and its ttl (a
\* number, or null for a nil pointer), and the array of the heap as it is
MarshalJSON(db, h) ==
    LET ks == SelectSeq(KeyOrder, LAMBDA k : k \in DOMAIN db)
    IN  [written |-> TRUE,
         dbStore |-> [i \in 1..Len(ks) |->
                        [key |-> ks[i], value |-> db[ks[i]].value,
                         ttl |-> IF db[ks[i]].ttl.isNil THEN JsonNull
                                 ELSE JsonNum(db[ks[i]].ttl.val)]],
         ttlHeap |-> [i \in 1..Len(h) |-> [key |-> h[i].key, ttl |-> JsonNum(h[i].ttl)]]]

\* InMemoryDatabase.UnmarshalJSON: the map of the members of dbStore
UnmarshalStore(doc) ==
    [k \in {doc.dbStore[i].key : i \in 1..Len(doc.dbStore)} |->
        LET m == doc.dbStore[CHOOSE i \in 1..Len(doc.dbStore) : doc.dbStore[i].key = k]
        IN  databaseEntry(m.value, IF m.ttl.null THEN Nil ELSE Ptr(m.ttl.num))]

\* a load that turns the array of the heap around
UnmarshalHeap_reversed(doc) ==
    [i \in 1..Len(doc.ttlHeap) |->
        ttlHeapData(doc.ttlHeap[Len(doc.ttlHeap) + 1 - i].key,
                    doc.ttlHeap[Len(doc.ttlHeap) + 1 - i].ttl.num)]

\* InMemoryDatabase.UnmarshalJSON: the slice of the elements of ttlHeap, in
\* the order of the array (heap.Init is not called on it)
UnmarshalHeap(doc) ==
    [i \in 1..Len(doc.ttlHeap) |-> ttlHeapData(doc.ttlHeap[i].key, doc.ttlHeap[i].ttl.num)]

\* what persistDatabase (lines 353-377) leaves in the file: the document;
\* the file as it was when os.Create fails; no document when os.Create has
\* emptied the file and Write fails
persistDatabase(file, db, h) ==
    IF disk = "ok" THEN MarshalJSON(db, h)
    ELSE IF disk = "noopen" THEN file
    ELSE NoFile

\* Shutdown of a database with database persistence: persistDatabase takes
\* the lock and writes the document; the process ends
Shutdown ==
    /\ phase = "running"
    /\ mu = "unlocked"
    /\ snapshotFile' = persistDatabase(snapshotFile, database, ttl)
    /\ phase' = "down"
    /\ UNCHANGED <<dbVars, shouldAofPersist, aof, stepVars, startupFile, scanned, brokerVars, envVars>>

\* NewInMemoryDatabase(WithInitialData(file, true)) on the file written: a
\* new database whose store and heap are the ones of the document
LoadSnapshot ==
    /\ phase = "down"
    /\ snapshotFile.written
    /\ database' = UnmarshalStore(snapshotFile)
    /\ ttl' = UnmarshalHeap(snapshotFile)
    /\ newItem' = 0
    /\ mu' = "unlocked"
    /\ cleaner' = [pc |-> "start", timer |-> 0]
    /\ reader' = [pc |-> "idle", key |-> "", ttl |-> 0]
    /\ resp' = NoResp
    /\ phase' = "loaded"
    /\ UNCHANGED <<now, shouldAofPersist, aof, stepVars, startupFile, scanned, snapshotFile, brokerVars, envVars>>

\* the calls and the cleanup routine until Shutdown, the load of the file
\* in a new process, and there the reads, the cleanup routine and the clock
NextSnapshot ==
    \/ phase = "running" /\ \E value \in OneValue, t \in TtlArgs, id \in Keys : Create(value, t, id)
    \/ phase = "running" /\ \E key \in Keys, value \in OneValue, t \in TtlArgs : Put(key, value, t)
    \/ phase = "running" /\ \E key \in Keys : Delete(key)
    \/ phase = "loaded" /\ \E key \in Keys : Get(key)
    \/ phase # "down" /\ CleanupPeek
    \/ phase # "down" /\ CleanupRecv
    \/ phase # "down" /\ CleanupTimer
    \/ phase # "down" /\ CleanupNewItem
    \/ phase # "down" /\ CleanupLock
    \/ phase # "down" /\ CleanupPop
    \/ phase # "down" /\ CleanupUnlock
    \/ Tick
    \/ Shutdown
    \/ LoadSnapshot

SnapshotSpec == Init /\ [][NextSnapshot]_vars

\* ------------------------------------- reads next to the writes in steps
\* the writes of two clients statement by statement, the cleanup routine
\* with its eviction in steps, the clock, and a client that reads
NextReadSteps ==
    \/ NextAofSteps
    \/ \E key \in Keys : Get(key)
    \/ \E key \in Keys : GetTTLLoad(key)
    \/ GetTTLRemaining

ReadStepSpec == InitAof /\ [][NextReadSteps]_vars

\* ------------------------------------------------ failing file system
\* how the operations on the files go: all right, or OpenFile and Create
\* fail, or the files open and the writes fail
DiskStates == {"ok", "noopen", "nowrite"}

\* the ttl arguments of the writes on a failing file system
FailTtls == {Nil, Ptr(1)}

\* the file system starts or stops failing
DiskChange(d) ==
    /\ d # disk
    /\ disk' = d
    /\ UNCHANGED <<dbVars, shouldAofPersist, aof, stepVars, startVars, brokerVars, http, persister>>

\* a snapshot that does not wait for the lock
PersistLock_nowait ==
    /\ persister = "idle"
    /\ persister' = "locked"
    /\ UNCHANGED <<dbVars, shouldAofPersist, aof, stepVars, startVars, brokerVars, http, disk>>

\* persistDatabaseCycle, lines 340-348: the period is over and
\* persistDatabase has the lock
PersistLock ==
    /\ persister = "idle"
    /\ mu = "unlocked"
    /\ mu' = "locked"
    /\ persister' = "locked"
    /\ UNCHANGED <<database, ttl, newItem, now, cleaner, reader, resp>>
    /\ UNCHANGED <<shouldAofPersist, aof, stepVars, startVars, brokerVars, http, disk>>

\* persistDatabase, lines 353-378: it writes the file or returns at the
\* first error; the deferred Unlock runs on every return
PersistWrite ==
    /\ persister = "locked"
    /\ snapshotFile' = persistDatabase(snapshotFile, database, ttl)
    /\ mu' = "unlocked"
    /\ persister' = "idle"
    /\ UNCHANGED <<database, ttl, newItem, now, cleaner, reader, resp>>
    /\ UNCHANGED <<shouldAofPersist, aof, stepVars, startupFile, scanned, phase, brokerVars, http, disk>>

\* a database with AOF and database persistence on a file system that may
\* fail at any time: the calls on one key, the cleanup routine, the
\* snapshot routine and the clock
NextFail ==
    \/ \E value \in OneValue, t \in FailTtls, id \in OneKey : Create(value, t, id)
    \/ \E key \in OneKey, value \in OneValue, t \in FailTtls : Put(key, value, t)
    \/ \E key \in OneKey : Delete(key)
    \/ CleanupPeek
    \/ CleanupRecv
    \/ CleanupTimer
    \/ CleanupNewItem
    \/ CleanupLock
    \/ CleanupPop
    \/ CleanupUnlock
    \/ Tick
    \/ \E d \in DiskStates : DiskChange(d)
    \/ PersistLock
    \/ PersistWrite

FailSpec == InitAof /\ [][NextFail]_vars

\* ------------------------------------------- subscribe and publish
\* the variables of the database, which the broker leaves alone
dbSide == <<dbVars, shouldAofPersist, aof, stepVars, startVars>>

\* an unsubscribe that leaves the list as it is
Remove_none(list, b) == list

\* an unsubscribe that cuts the last mailbox of the list, whichever it is
Remove_last(list, b) == SubSeq(list, 1, Len(list) - 1)

\* a removal that moves the last mailbox into the place of the removed one
Remove_swap(list, b) ==
    IF \E i \in 1..Len(list) : list[i] = b
       THEN LET i == CHOOSE j \in 1..Len(list) : list[j] = b
            IN  SubSeq([list EXCEPT ![i] = list[Len(list)]], 1, Len(list) - 1)
       ELSE list

\* lines 291-296: the list without the first occurrence of the mailbox
Remove(list, b) ==
    IF \E i \in 1..Len(list) : list[i] = b
       THEN LET i == CHOOSE j \in 1..Len(list) :
                        list[j] = b /\ \A l \in 1..(j - 1) : list[l] # b
            IN  SubSeq(list, 1, i - 1) \o SubSeq(list, i + 1, Len(list))
       ELSE list

\* a loop over the mailboxes of every channel
Subscribers_all(chs, ch) == chs["c1"] \o chs["c2"]

\* line 332: h.broker.channels[channel]
Subscribers(chs, ch) == chs[ch]

\* a send that does not look at the capacity
TrySend_unbounded(buf, message) == Append(buf, message)

\* a send that puts the message before the waiting ones
TrySend_first(buf, message) ==
    IF Len(buf) < MailboxCap THEN <<message>> \o buf ELSE buf

\* lines 333-337: the select with default on a mailbox that is not closed;
\* the message is queued if there is room and dropped otherwise
TrySend(buf, message) ==
    IF Len(buf) < MailboxCap THEN Append(buf, message) ELSE buf

\* lines 264-284 and the start of the loop of line 301: a subscribe request
\* makes its mailbox and appends it to the list of its channel under the
\* write lock (requests take the mailboxes in turn)
Subscribe(b, ch) ==
    /\ box[b].chan = "none"
    /\ \A a \in 1..(b - 1) : box[a].chan # "none"
    /\ brokerMu = 0
    /\ box' = [box EXCEPT ![b] = [chan |-> "open", buf |-> <<>>, channel |-> ch,
                                  ctx |-> "live", handler |-> "streaming"]]
    /\ channels' = [channels EXCEPT ![ch] = Append(@, b)]
    /\ UNCHANGED <<pubs, brokerMu, published, completed, delivered, panicked, dbSide, envVars>>

\* the context of the request is done: the client went away or the
\* deadline of the request passed
Cancel(b) ==
    /\ box[b].chan # "none"
    /\ box[b].ctx = "live"
    /\ box' = [box EXCEPT ![b].ctx = "done"]
    /\ UNCHANGED <<channels, pubs, brokerMu, published, completed, delivered, panicked, dbSide, envVars>>

\* lines 289-298: after ctx.Done() the goroutine, under the write lock,
\* removes the mailbox from the list of its channel and closes it
Unsubscribe(b) ==
    /\ box[b].ctx = "done"
    /\ box[b].chan = "open"
    /\ brokerMu = 0
    /\ channels' = [channels EXCEPT ![box[b].channel] = Remove(@, b)]
    /\ box' = [box EXCEPT ![b].chan = "closed"]
    /\ UNCHANGED <<pubs, brokerMu, published, completed, delivered, panicked, dbSide, envVars>>

\* lines 301-307: the loop receives the next message and writes it to the
\* client (a closed mailbox still hands out what it holds)
Deliver(b) ==
    /\ box[b].handler = "streaming"
    /\ box[b].buf # <<>>
    /\ delivered' = [delivered EXCEPT ![b] = Append(@, Head(box[b].buf))]
    /\ box' = [box EXCEPT ![b].buf = Tail(@)]
    /\ UNCHANGED <<channels, pubs, brokerMu, published, completed, panicked, dbSide, envVars>>

\* lines 302-306: the write of the received message fails, the handler
\* returns, and the server cancels the context of the request
WriteError(b) ==
    /\ box[b].handler = "streaming"
    /\ box[b].buf # <<>>
    /\ box' = [box EXCEPT ![b].buf = Tail(@), ![b].handler = "returned", ![b].ctx = "done"]
    /\ UNCHANGED <<channels, pubs, brokerMu, published, completed, delivered, panicked, dbSide, envVars>>

\* line 301: the mailbox is closed and empty, the loop and the handler end
StreamEnd(b) ==
    /\ box[b].handler = "streaming"
    /\ box[b].chan = "closed"
    /\ box[b].buf = <<>>
    /\ box' = [box EXCEPT ![b].handler = "returned"]
    /\ UNCHANGED <<channels, pubs, brokerMu, published, completed, delivered, panicked, dbSide, envVars>>

\* lines 312-332: a publish request with a valid body takes the read lock
\* and starts the loop over the mailboxes of its channel; limit bounds the
\* number of requests
PublishStart(p, ch, limit) ==
    /\ pubs[p].pc = "idle"
    /\ published < limit
    /\ brokerMu' = brokerMu + 1
    /\ published' = published + 1
    /\ pubs' = [pubs EXCEPT ![p] =
                   [pc |-> "send", channel |-> ch,
                    message |-> [id |-> published + 1, after |-> completed, channel |-> ch],
                    list |-> Subscribers(channels, ch), i |-> 1]]
    /\ UNCHANGED <<channels, box, completed, delivered, panicked, dbSide, envVars>>

\* lines 332-338: one iteration of the loop, the send with default
PublishSend(p) ==
    /\ pubs[p].pc = "send"
    /\ pubs[p].i <= Len(pubs[p].list)
    /\ LET b == pubs[p].list[pubs[p].i]
       IN  IF box[b].chan = "closed"
              THEN /\ panicked' = TRUE
                   /\ UNCHANGED box
              ELSE /\ box' = [box EXCEPT ![b].buf = TrySend(@, pubs[p].message)]
                   /\ UNCHANGED panicked
    /\ pubs' = [pubs EXCEPT ![p].i = @ + 1]
    /\ UNCHANGED <<channels, brokerMu, published, completed, delivered, dbSide, envVars>>

\* lines 330 and 340-344: the loop is over, the request answers 200 and the
\* deferred RUnlock runs
PublishDone(p) ==
    /\ pubs[p].pc = "send"
    /\ pubs[p].i > Len(pubs[p].list)
    /\ brokerMu' = brokerMu - 1
    /\ completed' = completed \cup {pubs[p].message.id}
    /\ pubs' = [pubs EXCEPT ![p] = NoPublish]
    /\ UNCHANGED <<channels, box, published, delivered, panicked, dbSide, envVars>>

\* two publishers and subscribers on two channels
NextBroker ==
    \/ \E b \in Boxes, ch \in ChannelNames : Subscribe(b, ch)
    \/ \E b \in Boxes : Cancel(b)
    \/ \E b \in Boxes : Unsubscribe(b)
    \/ \E b \in Boxes : Deliver(b)
    \/ \E b \in Boxes : WriteError(b)
    \/ \E b \in Boxes : StreamEnd(b)
    \/ \E p \in Publishers, ch \in ChannelNames : PublishStart(p, ch, MaxPublish)
    \/ \E p \in Publishers : PublishSend(p)
    \/ \E p \in Publishers : PublishDone(p)

BrokerSpec == Init /\ [][NextBroker]_vars

\* one publisher on one channel, with more requests than a mailbox holds
NextFull ==
    \/ \E b \in Boxes, ch \in OneChannel : Subscribe(b, ch)
    \/ \E b \in Boxes : Deliver(b)
    \/ \E p \in OnePublisher, ch \in OneChannel : PublishStart(p, ch, MailboxCap + MaxDrop)
    \/ \E p \in OnePublisher : PublishSend(p)
    \/ \E p \in OnePublisher : PublishDone(p)

\* a publish request that has the read lock goes on
FairPublish == \A p \in Publishers : WF_vars(PublishSend(p)) /\ WF_vars(PublishDone(p))

FullSpec == Init /\ [][NextFull]_vars /\ FairPublish

\* a handler that is streaming goes on with its loop
FairStream == \A b \in Boxes : WF_vars(Deliver(b))

FairBrokerSpec == BrokerSpec /\ FairPublish /\ FairStream

\* the goroutine of line 287 runs once the context is done and gets the
\* write lock (a waiting Lock holds back the later RLocks), and the loop of
\* line 301 ends on a mailbox that is closed and empty
FairCancel == \A b \in Boxes : SF_vars(Unsubscribe(b)) /\ WF_vars(StreamEnd(b))

FairSubscribeSpec == FairBrokerSpec /\ FairCancel

\* ------------------------------------- the snapshot next to the writes
\* lines 190-197 of Put: the load and the store of the new entry
PutStoreEntry(c) ==
    /\ writer[c].pc = "appended" /\ writer[c].op = "Put"
    /\ LET key      == writer[c].key
           newEntry == databaseEntry(writer[c].value, expiry(writer[c].ttl, now))
       IN  /\ database' = store(database, key, newEntry)
           /\ applied' = Append(applied, PutLine(key, writer[c].value, writer[c].ttl))
           /\ writer' = [writer EXCEPT ![c].pc =
                            IF load(database, key) THEN "loaded" ELSE "stored"]
    /\ UNCHANGED <<ttl, newItem, mu, now, cleaner, reader, resp>>
    /\ UNCHANGED <<shouldAofPersist, aof, evicting, startVars, brokerVars, envVars>>

\* lines 199-209 of Put: the push of the stored expiry, the signal, the
\* return and the deferred Unlock
PutPush(c) ==
    /\ writer[c].pc \in {"loaded", "stored"} /\ writer[c].op = "Put"
    /\ LET key == writer[c].key
       IN  /\ resp' = Return("Put", key, writer[c].pc = "loaded", "", Nil)
           /\ IF ~writer[c].ttl.isNil
                 THEN /\ ttl' = HeapPush(ttl, ttlHeapData(key, database[key].ttl.val))
                      /\ newItem' = Notify(newItem)
                 ELSE UNCHANGED <<ttl, newItem>>
    /\ mu' = "unlocked"
    /\ writer' = [writer EXCEPT ![c] = NoCall]
    /\ UNCHANGED <<database, now, cleaner, reader>>
    /\ UNCHANGED <<shouldAofPersist, aof, evicting, applied, startVars, brokerVars, envVars>>

\* a client whose Put stores and pushes in two steps, Create and Delete, the
\* cleanup routine that pops and deletes in two steps, the clock, and the
\* snapshot routine
NextSnapshotSteps ==
    \/ \E c \in OneClient, value \in OneValue, t \in TtlArgs, id \in Keys :
          CallLock(c, "Create", id, value, t)
    \/ \E c \in OneClient, key \in Keys, value \in OneValue, t \in TtlArgs :
          CallLock(c, "Put", key, value, t)
    \/ \E c \in OneClient, key \in Keys : CallLock(c, "Delete", key, "", Nil)
    \/ \E c \in OneClient : CreateStore(c)
    \/ \E c \in OneClient : CreateAppend(c)
    \/ \E c \in OneClient : PutAppend(c)
    \/ \E c \in OneClient : PutStoreEntry(c)
    \/ \E c \in OneClient : PutPush(c)
    \/ \E c \in OneClient : DeleteAppend(c)
    \/ \E c \in OneClient : DeleteStore(c)
    \/ CleanupPeek
    \/ CleanupRecv
    \/ CleanupTimer
    \/ CleanupNewItem
    \/ CleanupLock
    \/ CleanupPopAppend
    \/ CleanupPopDelete
    \/ CleanupPopStale
    \/ evicting = "" /\ CleanupUnlock
    \/ Tick
    \/ PersistLock
    \/ PersistWrite

SnapshotStepSpec == InitAof /\ [][NextSnapshotSteps]_vars

\* ------------------------------------------- startup from a snapshot file
\* the file given as --db-startup-file: whether json.Unmarshal accepts it
\* (it is JSON, an object, with members of the right types), whether the
\* object has the members dbStore and ttlHeap, and what they hold
StartupDoc(json, hasStore, hasHeap, doc) ==
    [json |-> json, hasStore |-> hasStore, hasHeap |-> hasHeap, doc |-> doc]

\* the one stored key of the snapshots, without expiry and with expiry 1
StoredPlain == [k \in OneKey |-> databaseEntry("v1", Nil)]
StoredExpiring == [k \in OneKey |-> databaseEntry("v1", Ptr(1))]

\* a file that is no JSON; the objects {}, {"ttlHeap": []} and
\* {"dbStore": {}}; and snapshots as persistDatabase writes them
StartupDocs ==
    {StartupDoc(FALSE, FALSE, FALSE, NoFile),
     StartupDoc(TRUE, FALSE, FALSE, NoFile),
     StartupDoc(TRUE, FALSE, TRUE, NoFile),
     StartupDoc(TRUE, TRUE, FALSE, NoFile),
     StartupDoc(TRUE, TRUE, TRUE, MarshalJSON(StoredPlain, <<>>)),
     StartupDoc(TRUE, TRUE, TRUE, MarshalJSON(StoredExpiring, <<ttlHeapData("k1", 1)>>))}

\* the process before NewInMemoryDatabase, with a startup file that can or
\* cannot be read
InitStartup ==
    /\ database = [k \in {} |-> databaseEntry("", Nil)]
    /\ ttl = <<>>
    /\ newItem = 0
    /\ mu = "unlocked"
    /\ now = 0
    /\ cleaner = [pc |-> "none", timer |-> 0]
    /\ reader = [pc |-> "idle", key |-> "", ttl |-> 0]
    /\ resp = NoResp
    /\ shouldAofPersist = FALSE
    /\ aof = <<>>
    /\ writer = NoWriter
    /\ evicting = ""
    /\ applied = <<>>
    /\ startupFile \in StartupDocs
    /\ scanned = 0
    /\ snapshotFile = NoFile
    /\ BrokerInit
    /\ http = NoRequest
    /\ disk \in {"ok", "noopen"}
    /\ persister = "idle"
    /\ phase = "down"

\* NewInMemoryDatabase with WithInitialData(file, true), and newServeCmd
\* after it: an error of os.ReadFile or of json.Unmarshal is returned before
\* the goroutines are started and the command returns it; otherwise
\* UnmarshalJSON has assigned the members of the object to i.database and
\* i.ttl (nil for a member the object does not have), ttlCleanup is started
\* and the server listens
StartFromSnapshot ==
    /\ phase = "down"
    /\ IF disk = "noopen" \/ ~startupFile.json
          THEN /\ phase' = "failed"
               /\ UNCHANGED <<database, ttl, cleaner>>
          ELSE /\ phase' = "loaded"
               /\ database' = IF startupFile.hasStore THEN UnmarshalStore(startupFile.doc)
                               ELSE [k \in {} |-> databaseEntry("", Nil)]
               /\ ttl' = IF startupFile.hasHeap THEN UnmarshalHeap(startupFile.doc) ELSE <<>>
               /\ cleaner' = [pc |-> "start", timer |-> 0]
    /\ UNCHANGED <<newItem, mu, now, reader, resp, shouldAofPersist, aof, stepVars>>
    /\ UNCHANGED <<startupFile, scanned, snapshotFile, brokerVars, envVars>>

\* line 228 of ttlCleanup on a database whose i.ttl is nil: len(*i.ttl)
\* panics in the goroutine and the process dies
CleanupPanic ==
    /\ phase = "loaded" /\ ~startupFile.hasHeap
    /\ cleaner.pc = "start"
    /\ mu = "unlocked"
    /\ panicked' = TRUE
    /\ phase' = "crashed"
    /\ UNCHANGED <<dbVars, shouldAofPersist, aof, stepVars, startupFile, scanned, snapshotFile>>
    /\ UNCHANGED <<channels, box, pubs, brokerMu, published, completed, delivered, envVars>>

\* the server is up, with a store and a heap that are not nil
Serving == phase = "loaded" /\ startupFile.hasStore /\ startupFile.hasHeap

\* the startup, then the reads of a client (which a nil map answers as an
\* empty one), the death of the cleanup routine on a nil heap, and on a
\* database that has its store and its heap the writes, the cleanup routine
\* and the clock
NextStartup ==
    \/ StartFromSnapshot
    \/ CleanupPanic
    \/ phase = "loaded" /\ \E key \in OneKey : Get(key)
    \/ Serving /\ \E key \in OneKey, value \in OneValue, t \in TtlArgs : Put(key, value, t)
    \/ Serving /\ CleanupPeek
    \/ Serving /\ CleanupRecv
    \/ Serving /\ CleanupTimer
    \/ Serving /\ CleanupNewItem
    \/ Serving /\ CleanupLock
    \/ Serving /\ CleanupPop
    \/ Serving /\ CleanupUnlock
    \/ Serving /\ Tick

StartupSpec == InitStartup /\ [][NextStartup]_vars

\* ------------------------------------------------- three subscribers
ThreeBoxes == {1, 2, 3}

\* the server with no request yet, and room for three subscribe requests
InitThree ==
    /\ database = [k \in {} |-> databaseEntry("", Nil)]
    /\ ttl = <<>>
    /\ newItem = 0
    /\ mu = "unlocked"
    /\ now = 0
    /\ cleaner = [pc |-> "start", timer |-> 0]
    /\ reader = [pc |-> "idle", key |-> "", ttl |-> 0]
    /\ resp = NoResp
    /\ shouldAofPersist = FALSE
    /\ aof = <<>>
    /\ writer = NoWriter
    /\ evicting = ""
    /\ applied = <<>>
    /\ startupFile = <<>>
    /\ scanned = 0
    /\ snapshotFile = NoFile
    /\ channels = [ch \in ChannelNames |-> <<>>]
    /\ box = [b \in ThreeBoxes |-> NoBox]
    /\ pubs = [p \in Publishers |-> NoPublish]
    /\ brokerMu = 0
    /\ published = 0
    /\ completed = {}
    /\ delivered = [b \in ThreeBoxes |-> <<>>]
    /\ panicked = FALSE
    /\ EnvInit
    /\ phase = "running"

\* three subscribers that come and go on two channels and a publisher
NextRemove ==
    \/ \E b \in ThreeBoxes, ch \in ChannelNames : Subscribe(b, ch)
    \/ \E b \in ThreeBoxes : Cancel(b)
    \/ \E b \in ThreeBoxes : Unsubscribe(b)
    \/ \E p \in OnePublisher, ch \in ChannelNames : PublishStart(p, ch, MaxPublish)
    \/ \E p \in OnePublisher : PublishSend(p)
    \/ \E p \in OnePublisher : PublishDone(p)

RemoveSpec == InitThree /\ [][NextRemove]_vars

\* ------------------------------------------- the database and the broker
\* one subscriber
OneBox == {1}

\* the server as a whole: the calls of a client statement by statement, a
\* reader, the cleanup routine, the snapshot routine, the clock, and on one
\* channel a publisher and a subscriber that comes and goes (the steps that
\* take the locks of the broker)
NextSystem ==
    \/ \E c \in OneClient, value \in OneValue, t \in FailTtls, id \in OneKey :
          CallLock(c, "Create", id, value, t)
    \/ \E c \in OneClient, key \in OneKey, value \in OneValue, t \in FailTtls :
          CallLock(c, "Put", key, value, t)
    \/ \E c \in OneClient, key \in OneKey : CallLock(c, "Delete", key, "", Nil)
    \/ \E c \in OneClient : CreateStore(c)
    \/ \E c \in OneClient : CreateAppend(c)
    \/ \E c \in OneClient : PutAppend(c)
    \/ \E c \in OneClient : PutStore(c)
    \/ \E c \in OneClient : DeleteAppend(c)
    \/ \E c \in OneClient : DeleteStore(c)
    \/ \E key \in OneKey : Get(key)
    \/ \E key \in OneKey : GetTTLLoad(key)
    \/ GetTTLRemaining
    \/ CleanupPeek
    \/ CleanupRecv
    \/ CleanupTimer
    \/ CleanupNewItem
    \/ CleanupLock
    \/ CleanupPopAppend
    \/ CleanupPopDelete
    \/ CleanupPopStale
    \/ evicting = "" /\ CleanupUnlock
    \/ Tick
    \/ PersistLock
    \/ PersistWrite
    \/ \E b \in OneBox, ch \in OneChannel : Subscribe(b, ch)
    \/ \E b \in OneBox : Cancel(b)
    \/ \E b \in OneBox : Unsubscribe(b)
    \/ \E p \in OnePublisher, ch \in OneChannel : PublishStart(p, ch, MaxPublish)
    \/ \E p \in OnePublisher : PublishSend(p)
    \/ \E p \in OnePublisher : PublishDone(p)

\* a goroutine that holds a lock is scheduled: the steps of a call, of the
\* drain, of the snapshot and of a publish that has its lock go on
FairSystem ==
    /\ \A c \in OneClient :
          /\ WF_vars(CreateStore(c)) /\ WF_vars(CreateAppend(c))
          /\ WF_vars(PutAppend(c)) /\ WF_vars(PutStore(c))
          /\ WF_vars(DeleteAppend(c)) /\ WF_vars(DeleteStore(c))
    /\ WF_vars(GetTTLRemaining)
    /\ WF_vars(CleanupPopAppend) /\ WF_vars(CleanupPopDelete) /\ WF_vars(CleanupPopStale)
    /\ WF_vars(evicting = "" /\ CleanupUnlock)
    /\ WF_vars(PersistWrite)
    /\ \A p \in OnePublisher : WF_vars(PublishSend(p)) /\ WF_vars(PublishDone(p))

SystemSpec == InitAof /\ [][NextSystem]_vars /\ FairSystem

\* ------------------------------------------- the key and ttl handlers
\* the routes of NewHandler that reach the database (lines 92-101)
Post   == "POST /v1/keys"
GetKey == "GET /v1/keys/{key}"
PutKey == "PUT /v1/keys/{key}"
DeleteKey == "DELETE /v1/keys/{key}"
GetTtl == "GET /v1/ttl/{key}"
Publish == "POST /v1/publish/{channel}"
BodyRoutes == {Post, PutKey}
KeyRoutes == {GetKey, DeleteKey, GetTtl}

\* request bodies: one that is no JSON, and JSON objects whose value is
\* empty (or missing) or not, with or without ttl; a request without body
BadJson == [json |-> FALSE, value |-> "", ttl |-> Nil]
Bodies == {BadJson} \cup {[json |-> TRUE, value |-> v, ttl |-> t] : v \in {"", "v1"}, t \in TtlArgs}
Empty == [json |-> TRUE, value |-> "", ttl |-> Nil]

\* a response: the status of WriteHeader and the body written
Response(status, body) == [status |-> status, body |-> body]

\* writeJSONError (lines 72-86): the status with the envelope {"error": msg}
writeJSONError(status, msg) == Response(status, Body("error", msg, "", "", Nil))

\* lines 125-139 and 187-202: Decode fails on what is no JSON, and the
\* validation of `required` fails on an empty value
Decoded(body) == body.json
Valid(body) == body.value # ""

\* the 400 of a body that is rejected, with the message of the handler
BadRequest(route, body) ==
    IF ~Decoded(body)
       THEN writeJSONError(400, IF route = Post THEN "unexpected EOF"
                                ELSE "Error occurred when parsing put request: unexpected EOF")
       ELSE writeJSONError(400, IF route = Post
                                   THEN "Validation errors when parsing post request: required"
                                   ELSE "Validation errors when parsing put request: required")

\* postHandler after h.db.Create (lines 147-158)
postHandler(set, key) ==
    IF ~set THEN writeJSONError(500, "Failed while adding key-value pair to store")
    ELSE Response(201, Body("key", "", key, "", Nil))

\* getHandler after h.db.Get (lines 166-180)
getHandler(key, value, loaded) ==
    IF ~loaded THEN writeJSONError(404, "Key not found")
    ELSE Response(200, Body("value", "", key, value, Nil))

\* a putHandler with the two statuses the other way round
putHandler_swapped(set) ==
    Response(IF set THEN 201 ELSE 200, Body("empty", "", "", "", Nil))

\* putHandler after h.db.Put (lines 210-219): the status, and the body {}
putHandler(set) ==
    Response(IF set THEN 200 ELSE 201, Body("empty", "", "", "", Nil))

\* deleteHandler after h.db.Delete (lines 227-236): the status, and the body {}
deleteHandler(deleted) ==
    Response(IF deleted THEN 200 ELSE 404, Body("empty", "", "", "", Nil))

\* getTTLHandler after h.db.GetTTL (lines 244-260)
getTTLHandler(key, t, loaded) ==
    IF ~loaded THEN writeJSONError(404, "Key not found")
    ELSE Response(200, Body("ttl", "", key, "", t))

\* what the handler of the route writes once the database call has
\* returned r (the Return of the call)
HandlerResponse(route, key, r) ==
    IF route = Post THEN postHandler(r.ok, r.key)
    ELSE IF route = GetKey THEN getHandler(key, r.value, r.ok)
    ELSE IF route = PutKey THEN putHandler(r.ok)
    ELSE IF route = DeleteKey THEN deleteHandler(r.ok)
    ELSE getTTLHandler(key, r.ttl, r.ok)

\* the request is answered: the handler has returned
Answered(route, key, response) ==
    [pc |-> "idle", route |-> route, key |-> key, value |-> "", ttl |-> Nil,
     status |-> response.status, body |-> response.body]

\* the router hands a request to its handler, which decodes and validates
\* the body where the route has one: it answers 400 and returns, or goes on
\* to call the database (the listener accepts requests until Shutdown)
Receive(route, key, body) ==
    /\ phase = "running"
    /\ http.pc = "idle"
    /\ IF route \in BodyRoutes /\ ~(Decoded(body) /\ Valid(body))
          THEN /\ http' = Answered(route, key, BadRequest(route, body))
               /\ UNCHANGED resp
          ELSE /\ http' = [pc |-> "decoded", route |-> route, key |-> key,
                           value |-> body.value, ttl |-> body.ttl,
                           status |-> 0, body |-> NoBody]
               /\ resp' = NoResp
    /\ UNCHANGED <<database, ttl, newItem, mu, now, cleaner, reader>>
    /\ UNCHANGED <<shouldAofPersist, aof, stepVars, startVars, brokerVars, disk, persister>>

\* the handler is at its call of the database
Calling(route) == http.pc = "decoded" /\ http.route = route /\ resp = NoResp /\ reader.pc = "idle"

\* the call has returned: the handler writes its response and returns
Respond ==
    /\ http.pc = "decoded"
    /\ resp # NoResp
    /\ http' = Answered(http.route, http.key, HandlerResponse(http.route, http.key, resp))
    /\ UNCHANGED <<dbVars, shouldAofPersist, aof, stepVars, startVars, brokerVars, disk, persister>>

\* publish bodies: no JSON, an empty (or missing) message, a message
PublishBodies == {[json |-> FALSE, message |-> ""], [json |-> TRUE, message |-> ""],
                  [json |-> TRUE, message |-> "m1"]}

\* publishHandler on a body it rejects (lines 316-327): 400, and the broker
\* is not touched
PublishReject(body) ==
    /\ http.pc = "idle"
    /\ ~body.json \/ body.message = ""
    /\ http' = Answered(Publish, "",
                        writeJSONError(400, IF ~body.json
                                               THEN "Publish request has bad body: unexpected EOF"
                                               ELSE "Message required for publish request"))
    /\ UNCHANGED <<dbVars, shouldAofPersist, aof, stepVars, startVars, brokerVars, disk, persister>>

\* one client whose requests, all on one key, are handled one after the
\* other, next to the cleanup routine and the clock
NextHandler ==
    \/ \E route \in BodyRoutes, key \in OneKey, body \in Bodies :
          Receive(route, IF route = Post THEN "" ELSE key, body)
    \/ \E route \in KeyRoutes, key \in OneKey : Receive(route, key, Empty)
    \/ Calling(Post) /\ \E id \in OneKey : Create(http.value, http.ttl, id)
    \/ Calling(GetKey) /\ Get(http.key)
    \/ Calling(PutKey) /\ Put(http.key, http.value, http.ttl)
    \/ Calling(DeleteKey) /\ Delete(http.key)
    \/ Calling(GetTtl) /\ GetTTLLoad(http.key)
    \/ GetTTLRemaining
    \/ Respond
    \/ \E body \in PublishBodies : PublishReject(body)
    \/ CleanupPeek
    \/ CleanupRecv
    \/ CleanupTimer
    \/ CleanupNewItem
    \/ CleanupLock
    \/ CleanupPop
    \/ CleanupUnlock
    \/ Tick

HandlerSpec == Init /\ [][NextHandler]_vars

\* ------------------------------------------------- graceful shutdown
\* the bodies of the requests that are not rejected
ValidBodies == {body \in Bodies : Decoded(body) /\ Valid(body)}

\* serve.go lines 155-165: h.Shutdown has returned, which it does once no
\* handler is in flight, and the hook has finished; the process ends
Exit ==
    /\ phase = "down"
    /\ http.pc = "idle"
    /\ phase' = "exited"
    /\ UNCHANGED <<dbVars, shouldAofPersist, aof, stepVars, startupFile, scanned, snapshotFile, brokerVars, envVars>>

\* the server of newServeCmd with database persistence: requests come
\* until h.Shutdown closes the listener and starts the hook registered with
\* RegisterOnShutdown in a goroutine of its own (the action Shutdown is the
\* hook's db.Shutdown); the handlers in flight go on until they return
NextServer ==
    \/ \E key \in OneKey, body \in ValidBodies : Receive(PutKey, key, body)
    \/ \E route \in {GetKey, DeleteKey}, key \in OneKey : Receive(route, key, Empty)
    \/ phase # "exited" /\ Calling(GetKey) /\ Get(http.key)
    \/ phase # "exited" /\ Calling(PutKey) /\ Put(http.key, http.value, http.ttl)
    \/ phase # "exited" /\ Calling(DeleteKey) /\ Delete(http.key)
    \/ phase # "exited" /\ Respond
    \/ phase # "exited" /\ CleanupPeek
    \/ phase # "exited" /\ CleanupRecv
    \/ phase # "exited" /\ CleanupTimer
    \/ phase # "exited" /\ CleanupNewItem
    \/ phase # "exited" /\ CleanupLock
    \/ phase # "exited" /\ CleanupPop
    \/ phase # "exited" /\ CleanupUnlock
    \/ phase # "exited" /\ Tick
    \/ Shutdown
    \/ Exit

ServerSpec == Init /\ [][NextServer]_vars

TypeOK ==
    /\ DOMAIN database \subseteq Keys
    /\ Len(ttl) <= MaxHeap
    /\ newItem \in {0, 1}
    /\ mu \in {"unlocked", "locked", "rlocked"}
    /\ now \in 0..MaxTime
    /\ disk \in DiskStates
    /\ persister \in {"idle", "locked"}
    /\ http.pc \in {"idle", "decoded"}

\* ================================================================ claims
\* what a Get and a GetTTL issued in the state (db, t) report for key
GetPresent(db, t, key) == GetLoaded(db, t, key)
GetValue(db, t, key)   == IF GetLoaded(db, t, key) THEN db[key].value ELSE ""
GetTTLPresent(db, t, key) == ~GetTTLMissing(db, t, key)

\* the step answers a call op on key (every step of such a call does)
Answers(op, key) == resp'.op = op /\ resp'.key = key

\* the step is a call that writes key: a Put on it, or a Create generating it
PutOn(key) ==
    Answers("Put", key) /\ \E value \in Values, t \in TtlArgs : Put(key, value, t)
CreateOn(key) ==
    Answers("Create", key) /\ \E value \in Values, t \in TtlArgs : Create(value, t, key)

PutOnAof(key) ==
    Answers("Put", key) /\ \E value \in AofValues, t \in TtlArgs : Put(key, value, t)
CreateOnAof(key) ==
    Answers("Create", key) /\ \E value \in AofValues, t \in TtlArgs : Create(value, t, key)

\* the entry of key has no expiry / has an expiry that has passed
NoExpiry(db, key)       == load(db, key) /\ db[key].ttl.isNil
ExpiryPassed(db, t, key) == load(db, key) /\ ~db[key].ttl.isNil /\ db[key].ttl.val <= t

\* C1: after a Put of v without ttl on k a Get(k) returns (v, present), after a
\* Delete of k it returns absent, in the initial state it returns absent, and
\* as long as the entry of k has no ttl only a Put or Delete on k (or a Create
\* generating k) changes what Get(k) returns: so after any
\* sequence of Puts without ttl and Deletes on k, by any clients in any lock
\* order, Get(k) returns the value of the last Put, or absent after a Delete.
C1_LastPutWins ==
    [][\A k \in Keys :
        /\ \A v \in Values : (Answers("Put", k) /\ Put(k, v, Nil)) =>
              GetReturn(database', now', k) = <<v, TRUE>>
        /\ (Answers("Delete", k) /\ Delete(k)) =>
              GetReturn(database', now', k) = <<"", FALSE>>
        /\ ((~load(database, k) \/ NoExpiry(database, k))
              /\ GetReturn(database', now', k) # GetReturn(database, now, k))
              => (Delete(k) \/ PutOn(k) \/ CreateOn(k))
      ]_vars

\* a Get returned the value of a Put without ttl while another key's entry and
\* the heap were being worked on
C1_Witness ==
    /\ resp.op = "Get" /\ resp.ok /\ resp.value = "v2"
    /\ NoExpiry(database, resp.key)
    /\ Len(ttl) > 0

\* C2: a Get(k) returns present only if k is stored with no expiry or with an
\* expiry strictly greater than the clock, then with the stored value; a key
\* whose expiry is <= now is reported absent although it is still stored.
C2_GetPresentOnlyIfLive ==
    [][\A k \in Keys : Get(k) =>
        /\ resp'.ok <=> (k \in DOMAIN database
                           /\ (database[k].ttl.isNil \/ database[k].ttl.val > now))
        /\ resp'.ok => resp'.value = database[k].value
        /\ (k \in DOMAIN database /\ ~database[k].ttl.isNil /\ database[k].ttl.val <= now)
              => ~resp'.ok
      ]_vars

\* a Get reported absent a key that is stored, expired and not yet evicted
C2_Witness ==
    /\ resp.op = "Get" /\ ~resp.ok
    /\ ExpiryPassed(database, now, resp.key)

C4_PutSetsTtl ==
    [][\A k \in Keys :
        /\ \A v \in Values : Put(k, v, Nil) =>
              database'[k] = databaseEntry(v, Nil)
        /\ \A v \in Values, t \in Ttls : Put(k, v, Ptr(t)) =>
              database'[k] = databaseEntry(v, Ptr(now + t))
        /\ (NoExpiry(database, k)
              /\ ~(load(database', k) /\ database'[k] = database[k]
                     /\ GetPresent(database', now', k)))
              => (PutOn(k) \/ Delete(k))
      ]_vars

\* the cleanup routine holds the lock and is about to pop an expired heap
\* entry of a key that a later Put without ttl has made non-expiring
C4_Witness ==
    /\ cleaner.pc = "drain" /\ Len(ttl) > 0
    /\ Peak(ttl).ttl <= now
    /\ NoExpiry(database, Peak(ttl).key)

\* C5: Put returns true exactly when a Get of the same key in the state the
\* Put starts in returns present, also for an entry expired but not evicted.
C5_PutReturnsGetPresent ==
    [][\A k \in Keys, v \in Values, t \in TtlArgs : Put(k, v, t) =>
        (resp'.ok <=> GetPresent(database, now, k))
      ]_vars

\* C6: Delete(k) returns true whenever a Get(k) just before it returns present,
\* false when k is not stored, and leaves k out of the store, where it stays,
\* absent to Get and GetTTL, until k is written again (by a Put on k, or by a
\* Create that generates k).
C6_DeleteRemoves ==
    [][\A k \in Keys :
        /\ Delete(k) =>
              /\ GetPresent(database, now, k) => resp'.ok
              /\ ~load(database, k) => ~resp'.ok
              /\ ~load(database', k)
        /\ (~load(database, k)
              /\ (load(database', k) \/ GetPresent(database', now', k)
                     \/ GetTTLPresent(database', now', k)))
              => (PutOn(k) \/ CreateOn(k))
      ]_vars

\* a Delete returned true and its key, which still has a heap entry, is gone
C6_Witness ==
    /\ resp.op = "Delete" /\ resp.ok
    /\ ~load(database, resp.key)
    /\ \E i \in 1..Len(ttl) : ttl[i].key = resp.key

\* what GetTTL returns when both its reads of the clock give t
GetTTLAt(db, t, key) ==
    IF GetTTLMissing(db, t, key) THEN <<Nil, FALSE>>
    ELSE IF ~db[key].ttl.isNil THEN <<Ptr(db[key].ttl.val - t), TRUE>>
    ELSE <<Nil, TRUE>>

\* the entries of the keys other than key are the same in db1 and db2
SameExcept(db1, db2, key) ==
    /\ (DOMAIN db1) \ {key} = (DOMAIN db2) \ {key}
    /\ \A k \in (DOMAIN db1) \ {key} : db1[k] = db2[k]

\* C7 as stated: a Create reporting created returns a key that was not stored,
\* right after it Get(key) returns (value, present) and GetTTL(key) the
\* supplied ttl, and the other keys are unchanged, for every ttl.
C7_CreateThenGet ==
    [][\A v \in Values, t \in TtlArgs, id \in Keys : (Answers("Create", id) /\ resp'.ok /\ Create(v, t, id)) =>
        /\ resp'.key = id /\ ~load(database, id)
        /\ GetPresent(database', now', id) /\ GetValue(database', now', id) = v
        /\ GetTTLAt(database', now', id) = <<t, TRUE>>
        /\ SameExcept(database, database', id)
      ]_vars

\* C7 amended: the same for a ttl that is absent or at least 1; with ttl 0
\* the entry is stored but Get and GetTTL report it absent.
C7_CreateThenGetPositiveTtl ==
    [][\A v \in Values, t \in TtlArgs, id \in Keys : (Answers("Create", id) /\ resp'.ok /\ Create(v, t, id)) =>
        /\ resp'.key = id /\ ~load(database, id)
        /\ load(database', id) /\ database'[id].value = v
        /\ SameExcept(database, database', id)
        /\ (t.isNil \/ t.val >= 1) =>
              /\ GetPresent(database', now', id) /\ GetValue(database', now', id) = v
              /\ GetTTLAt(database', now', id) = <<t, TRUE>>
        /\ (~t.isNil /\ t.val = 0) =>
              /\ ~GetPresent(database', now', id)
              /\ GetTTLAt(database', now', id) = <<Nil, FALSE>>
      ]_vars

\* a Create with ttl 1 at time 1 reported created, next to another stored key
C7_Witness ==
    /\ resp.op = "Create" /\ resp.ok
    /\ now = 1
    /\ load(database, resp.key) /\ database[resp.key].ttl = Ptr(now + 1)
    /\ Cardinality(DOMAIN database) = 2

\* C8: a Put or a created Create with ttl 0 stores the entry with expiry now
\* (the Put returning false when the key was not stored); from then on, and
\* generally once the expiry of a stored entry is <= now, Get and GetTTL on
\* the key report absent, whatever the cleanup routine does, until a Put
\* writes the key again.
C8_TtlZeroIsExpired ==
    [][\A k \in Keys :
        /\ \A v \in Values : Put(k, v, Ptr(0)) =>
              /\ database'[k] = databaseEntry(v, Ptr(now))
              /\ ~load(database, k) => ~resp'.ok
              /\ ~GetPresent(database', now', k) /\ ~GetTTLPresent(database', now', k)
        /\ \A v \in Values : (Create(v, Ptr(0), k) /\ resp'.ok) =>
              /\ database'[k] = databaseEntry(v, Ptr(now))
              /\ ~GetPresent(database', now', k) /\ ~GetTTLPresent(database', now', k)
        /\ (ExpiryPassed(database, now, k)
              /\ (GetPresent(database', now', k) \/ GetTTLPresent(database', now', k)))
              => PutOn(k)
      ]_vars

\* a Put with ttl 0 of a new key at time 1 returned false and the entry is stored
C8_Witness ==
    /\ resp.op = "Put" /\ ~resp.ok
    /\ now = 1
    /\ load(database, resp.key) /\ database[resp.key].ttl = Ptr(now)

\* C9: under fair scheduling of the cleanup routine, an entry stored with
\* expiry e that the clock has reached is eventually no longer stored with
\* that expiry (it is evicted, unless a Put or Delete gets there first), for
\* every key, whatever the other entries of the heap and their order; and no
\* step of the routine removes an entry whose own expiry is still ahead.
C9_ExpiredEventuallyEvicted ==
    /\ \A k \in Keys, e \in 0..MaxTime :
          (Unmodified(database, k, e) /\ now >= e) ~> ~Unmodified(database, k, e)
    /\ [][Cleanup =>
            \A k \in DOMAIN database :
                (~database[k].ttl.isNil /\ database[k].ttl.val > now) => load(database', k)
         ]_vars

\* two keys are stored with different expiries, the heap holds their two
\* entries, and the cleanup routine is about to evict the one that has expired
C9_Witness ==
    /\ cleaner.pc = "drain" /\ Len(ttl) = 2
    /\ ttl[1].key # ttl[2].key /\ ttl[1].ttl < ttl[2].ttl
    /\ ttl[1].ttl <= now
    /\ Unmodified(database, ttl[1].key, ttl[1].ttl)
    /\ Unmodified(database, ttl[2].key, ttl[2].ttl)

\* C10: a step of the cleanup routine removes at most the key of the heap
\* entry (k, e) it pops, and only when e <= now and the stored expiry of k is
\* exactly e, the expiry the last Put left; it changes no other entry and it
\* never removes an entry that Get reports present.
C10_EvictOnlyExpiredMatch ==
    [][Cleanup =>
        /\ \A k \in Keys : GetPresent(database, now, k) =>
              load(database', k) /\ database'[k] = database[k]
        /\ \A k \in DOMAIN database' : load(database, k) /\ database'[k] = database[k]
        /\ \A k \in (DOMAIN database) \ (DOMAIN database') :
              /\ CleanupPop
              /\ Peak(ttl).key = k /\ Peak(ttl).ttl <= now
              /\ database[k].ttl = Ptr(Peak(ttl).ttl)
              /\ database' = delete(database, k)
      ]_vars

\* the cleanup routine is about to pop the heap entry of the last Put of a
\* key, while a stale entry of an overwritten ttl of that key is in the heap
C10_Witness ==
    /\ cleaner.pc = "drain" /\ Len(ttl) = 2
    /\ Peak(ttl).ttl <= now
    /\ Unmodified(database, Peak(ttl).key, Peak(ttl).ttl)
    /\ ttl[2].key = Peak(ttl).key /\ ttl[2].ttl # Peak(ttl).ttl

\* the step is a Create, Put or Delete call
ClientWrite ==
    \/ \E k \in Keys : Delete(k) \/ PutOnAof(k) \/ CreateOnAof(k)

\* C12: with AOF persistence every Create (also one that stores nothing) and
\* every Put appends the one line PUT key value ttl, where ttl is the relative
\* ttl of the call or -1 without ttl; every Delete, also of a key that is not
\* stored, appends the one line DELETE key; the cleanup routine appends
\* DELETE key for the key it evicts and nothing for a heap entry it discards;
\* nothing else changes the file, and the lines already there stay.
C12_OneRecordPerMutation ==
    [][/\ \A k \in Keys, v \in AofValues, t \in TtlArgs :
             (Answers("Create", k) /\ Create(v, t, k)) =>
                 aof' = Append(aof, <<"PUT", k>> \o Fields(v)
                                      \o <<IF t.isNil THEN "-1" ELSE ToString(t.val)>>)
       /\ \A k \in Keys, v \in AofValues, t \in TtlArgs :
             (Answers("Put", k) /\ Put(k, v, t)) =>
                 aof' = Append(aof, <<"PUT", k>> \o Fields(v)
                                      \o <<IF t.isNil THEN "-1" ELSE ToString(t.val)>>)
       /\ \A k \in Keys : (Answers("Delete", k) /\ Delete(k)) =>
             aof' = Append(aof, <<"DELETE", k>>)
       /\ CleanupPop =>
             IF database' # database
                THEN /\ aof' = Append(aof, <<"DELETE", Peak(ttl).key>>)
                     /\ database' = delete(database, Peak(ttl).key)
                ELSE aof' = aof
       /\ aof' # aof => (ClientWrite \/ CleanupPop)
      ]_vars

\* the AOF holds the line, with ttl 0, of a Put made at time 1 (the entry has
\* expiry 1) and after it the DELETE of the eviction of another key
C12_Witness ==
    /\ shouldAofPersist
    /\ Len(aof) = 3
    /\ aof[2] = <<"PUT", "k1", "v1", "0">>
    /\ aof[3] = <<"DELETE", "k2">>
    /\ resp.op = "Put" /\ resp.key = "k1"
    /\ load(database, "k1") /\ database["k1"].ttl = Ptr(1)

\* C13: at any moment of a run that started empty with AOF persistence, a
\* second database that replays the AOF written so far gives for every key
\* the Get and GetTTL results of the first one, up to a shift of the clock by
\* the time of the write (the AOF holds the relative ttl, which replay takes
\* for the expiry).
C13_ReplayEquivalent ==
    LET db2 == Replay([k \in {} |-> databaseEntry("", Nil)], aof)
    IN  \A k \in Keys : \E shift \in 0..now :
            /\ GetReturn(db2, now - shift, k) = GetReturn(database, now, k)
            /\ GetTTLAt(db2, now - shift, k) = GetTTLAt(database, now, k)

\* the words of a line make a PUT or DELETE record of the grammar
IsNumeral(str) == str \in {"0", "1", "2", "3"}
IsPut(line) ==
    Len(line) = 4 /\ line[1] = "PUT" /\ (line[4] = "-1" \/ IsNumeral(line[4]))
IsDelete(line) == Len(line) = 2 /\ line[1] = "DELETE"

\* C14: replay takes the lines in file order, one per iteration: PUT k v -1
\* stores k with value v and no expiry, PUT k v N stores k with expiry N,
\* DELETE k removes k (stored or not), any other line leaves the store as
\* it is; in every case the load goes on to the next line, and the heap
\* is left alone.
C14_ReplayByLine ==
    [][ReplayScan =>
        LET line == startupFile[scanned + 1]
        IN  /\ scanned' = scanned + 1 /\ phase' = "loading"
            /\ startupFile' = startupFile
            /\ IF IsPut(line)
                  THEN /\ DOMAIN database' = DOMAIN database \cup {line[2]}
                       /\ database'[line[2]].value = line[3]
                       /\ database'[line[2]].ttl =
                             (IF line[4] = "-1" THEN Nil
                              ELSE Ptr(CHOOSE n \in 0..3 : ToString(n) = line[4]))
                       /\ \A k \in DOMAIN database \ {line[2]} : database'[k] = database[k]
               ELSE IF IsDelete(line)
                  THEN /\ DOMAIN database' = DOMAIN database \ {line[2]}
                       /\ \A k \in DOMAIN database' : database'[k] = database[k]
               ELSE database' = database
      ]_vars

\* a file of three lines is loaded: the first line, a PUT whose ttl is no
\* number, was skipped, the second stored k2 with expiry 0, the third
\* deleted k1, which was not stored
C14_Witness ==
    /\ phase = "running"
    /\ startupFile = << <<"PUT", "k2", "v2", "x">>, <<"PUT", "k2", "v1", "0">>, <<"DELETE", "k1">> >>
    /\ scanned = 3
    /\ DOMAIN database = {"k2"} /\ database["k2"] = databaseEntry("v1", Ptr(0))

\* C15: every PUT line with a ttl other than -1 that replay has read has left
\* an entry (key, expiry) in the heap, for the cleanup routine to evict.
C15_ReplayPushesIndex ==
    \A i \in 1..scanned :
        (IsPut(startupFile[i]) /\ startupFile[i][4] # "-1") =>
            \E j \in 1..Len(ttl) :
                /\ ttl[j].key = startupFile[i][2]
                /\ ToString(ttl[j].ttl) = startupFile[i][4]

\* the AOF line of the write a lock holder has in progress
CallLine(w) ==
    IF w.op = "Delete" THEN DeleteLine(w.key) ELSE PutLine(w.key, w.value, w.ttl)

\* C11: with AOF persistence, whatever the interleaving of the statements of
\* concurrent Create, Put and Delete calls and of the cleanup routine, the
\* lines of the AOF are the in-memory changes in the order they took effect:
\* the two sequences are equal whenever no write holds the lock, and while
\* one does they differ by at most its own line, at the end of the one it
\* has already done; and the appends and changes of two operations never
\* interleave, as at most one of them is between its lock and its unlock.
C11_AofOrderIsMutationOrder ==
    LET busy == {c \in Clients : writer[c].pc # "idle"}
    IN  /\ Cardinality(busy) + (IF cleaner.pc = "drain" THEN 1 ELSE 0) <= 1
        /\ (busy # {} \/ cleaner.pc = "drain") => mu = "locked"
        /\ evicting # "" => cleaner.pc = "drain" /\ aof = Append(applied, DeleteLine(evicting))
        /\ (busy = {} /\ evicting = "") => aof = applied
        /\ \A c \in busy :
              /\ writer[c].pc = "locked" => aof = applied
              /\ writer[c].pc = "appended" => aof = Append(applied, CallLine(writer[c]))
              /\ writer[c].pc \in {"loaded", "stored"} =>
                    applied = Append(aof, CallLine(writer[c]))

\* a Put of one client has appended its line after the line of a write with
\* ttl of the other and has yet to store, while the cleanup routine, whose
\* timer has fired, waits for the lock to evict
C11_Witness ==
    /\ \E c \in Clients : writer[c].pc = "appended" /\ writer[c].op = "Put"
    /\ cleaner.pc = "lock"
    /\ Len(aof) = 2 /\ aof[1][1] = "PUT" /\ aof[1][4] # "-1"
    /\ Len(applied) = 1 /\ Len(ttl) > 0

\* the array h has the min-heap property on the ttls
IsHeap(h) == \A i \in 2..Len(h) : h[i \div 2].ttl <= h[i].ttl

\* C16: the database loaded from the snapshot written in any state the
\* running database can be in (with the lock free, as persistDatabase takes
\* it) has the same store, key by key with the same value and absolute
\* expiry, and the same heap array, which has the min-heap property.
C16_SnapshotRoundTrip ==
    [][LoadSnapshot =>
        /\ DOMAIN database' = DOMAIN database
        /\ \A k \in DOMAIN database :
              /\ database'[k].value = database[k].value
              /\ database'[k].ttl = database[k].ttl
        /\ ttl' = ttl
        /\ IsHeap(ttl')
      ]_vars

\* the loaded database holds a key without expiry and one with expiry 1,
\* and its heap the entry of that expiry under a stale one of expiry 0
C16_Witness ==
    /\ phase = "loaded"
    /\ \E k1 \in Keys, k2 \in Keys :
          /\ NoExpiry(database, k1)
          /\ load(database, k2) /\ database[k2].ttl = Ptr(1)
          /\ ttl = <<ttlHeapData(k1, 0), ttlHeapData(k2, 1)>>

\* the mailbox a publisher's loop is at
Target(p) == pubs[p].list[pubs[p].i]

\* C17: an iteration of the loop of a publish never waits: it queues the
\* message on its mailbox when that holds fewer than 10 and otherwise leaves
\* the mailbox as it is, touches no other mailbox, and moves on to the next
\* one; a request in its loop can always take a step; no mailbox ever holds
\* more than 10 messages; and every publish request returns.
C17_PublishNeverBlocks ==
    /\ [](\A b \in Boxes : Len(box[b].buf) <= 10)
    /\ [](\A p \in Publishers :
            pubs[p].pc = "send" => ENABLED (PublishSend(p) \/ PublishDone(p)))
    /\ [][\A p \in Publishers : PublishSend(p) =>
            /\ box'[Target(p)].buf =
                  (IF Len(box[Target(p)].buf) < 10
                      THEN Append(box[Target(p)].buf, pubs[p].message)
                      ELSE box[Target(p)].buf)
            /\ \A a \in Boxes \ {Target(p)} : box'[a] = box[a]
            /\ pubs'[p].pc = "send" /\ pubs'[p].i = pubs[p].i + 1
         ]_vars
    /\ \A p \in Publishers : (pubs[p].pc = "send") ~> (pubs[p].pc = "idle")

\* the eleventh publish has returned: it was dropped for the first mailbox,
\* which holds the ten before it, and queued for the second
C17_Witness ==
    /\ Len(box[1].buf) = 10
    /\ published = 11 /\ completed = 1..11
    /\ delivered[1] = <<>> /\ box[1].buf[10].id = 10
    /\ box[2].buf # <<>> /\ box[2].buf[Len(box[2].buf)].id = 11

\* the messages a mailbox has taken, in the order its client gets them
Stream(b) == delivered[b] \o box[b].buf

\* C18: what a subscriber gets are messages published on its channel, each
\* at most once, and if a publish had returned before another came, its
\* message is not behind the other's; a step only adds a message of a
\* publish in progress at the end of what the subscriber is to get.
C18_OrderPreserved ==
    /\ [](\A b \in Boxes : \A i \in 1..Len(Stream(b)), j \in 1..Len(Stream(b)) :
             /\ Stream(b)[i].id \in 1..published
             /\ i < j => /\ Stream(b)[i].id # Stream(b)[j].id
                         /\ Stream(b)[j].id \notin Stream(b)[i].after)
    /\ [][\A b \in Boxes :
             \/ Stream(b)' = Stream(b)
             \/ /\ box[b].handler = "streaming" /\ box[b].buf # <<>>
                /\ Stream(b)' = delivered[b] \o Tail(box[b].buf)
             \/ \E p \in Publishers :
                   pubs[p].pc = "send" /\ Stream(b)' = Append(Stream(b), pubs[p].message)
         ]_vars

\* a subscriber has got the message of a publish and holds in its mailbox
\* that of a publish that came after the first had returned
C18_Witness ==
    \E b \in Boxes :
        /\ Len(delivered[b]) = 1 /\ Len(box[b].buf) = 1
        /\ delivered[b][1].id \in box[b].buf[1].after

\* C19: a publish on channel c loops over exactly the mailboxes subscribed
\* to c and not yet removed, each once; an iteration that finds room queues
\* the message at the end of its mailbox; the handler writes the messages
\* of its mailbox in their order, one per iteration, and a message leaves
\* a mailbox only by being written or by a write that fails and ends the
\* handler; a mailbox only ever holds messages of its own channel; and the
\* mailbox of a streaming handler is empty again and again, so that every
\* queued message is written unless a write to the client fails.
C19_DeliveredToSubscribers ==
    /\ [](\A b \in Boxes : \A i \in 1..Len(Stream(b)) :
             Stream(b)[i].channel = box[b].channel)
    /\ [][/\ \A p \in Publishers : (pubs[p].pc = "idle" /\ pubs'[p].pc = "send") =>
               /\ {pubs'[p].list[i] : i \in 1..Len(pubs'[p].list)} =
                     {b \in Boxes : box[b].chan = "open" /\ box[b].channel = pubs'[p].channel}
               /\ \A i \in 1..Len(pubs'[p].list), j \in 1..Len(pubs'[p].list) :
                     i # j => pubs'[p].list[i] # pubs'[p].list[j]
          /\ \A p \in Publishers : PublishSend(p) =>
               /\ box[Target(p)].channel = pubs[p].channel
               /\ Len(box[Target(p)].buf) < MailboxCap =>
                     box'[Target(p)].buf = Append(box[Target(p)].buf, pubs[p].message)
               /\ \A a \in Boxes \ {Target(p)} : box'[a] = box[a]
          /\ \A b \in Boxes : Deliver(b) =>
               /\ delivered'[b] = Append(delivered[b], Head(box[b].buf))
               /\ box'[b].buf = Tail(box[b].buf)
          /\ \A b \in Boxes : Len(box'[b].buf) < Len(box[b].buf) =>
               \/ delivered'[b] = Append(delivered[b], Head(box[b].buf))
               \/ box'[b].handler = "returned"
         ]_vars
    /\ \A b \in Boxes :
          []<>(box[b].handler = "streaming" => box[b].buf = <<>>)

\* two publishes on c1 have returned, the subscriber of c1 has got both
\* messages, in order, and the subscriber of c2 nothing
C19_Witness ==
    /\ box[1].channel = "c1" /\ box[2].channel = "c2"
    /\ box[2].chan = "open" /\ Stream(2) = <<>>
    /\ completed = {1, 2}
    /\ Len(delivered[1]) = 2 /\ delivered[1][1].id = 1 /\ delivered[1][2].id = 2

\* C20: no publish sends on a closed mailbox: the unsubscribe closes the
\* mailbox in the step that takes it off the list of its channel, which no
\* publish is looping over then; a closed mailbox is on no list and in the
\* rest of no loop, stays closed, and gets no further message.
C20_NoSendAfterClose ==
    /\ [](~panicked)
    /\ [](\A b \in Boxes : box[b].chan = "closed" =>
            /\ \A ch \in ChannelNames : \A i \in 1..Len(channels[ch]) : channels[ch][i] # b
            /\ \A p \in Publishers : \A i \in 1..Len(pubs[p].list) :
                  (pubs[p].pc = "send" /\ i >= pubs[p].i) => pubs[p].list[i] # b)
    /\ [][\A b \in Boxes :
            /\ Unsubscribe(b) =>
                  /\ box[b].chan = "open" /\ box'[b].chan = "closed"
                  /\ \A ch \in ChannelNames : \A i \in 1..Len(channels'[ch]) : channels'[ch][i] # b
                  /\ \A p \in Publishers : pubs[p].pc = "idle"
            /\ box[b].chan = "closed" =>
                  /\ box'[b].chan = "closed"
                  /\ box'[b].buf = box[b].buf \/ box'[b].buf = Tail(box[b].buf)
         ]_vars

\* a publish is looping over a mailbox whose context is done and whose
\* unsubscribe waits for the lock, after the other mailbox of the channel
\* was closed with a message still in it
C20_Witness ==
    \E p \in Publishers, b \in Boxes, a \in Boxes :
        /\ pubs[p].pc = "send" /\ pubs[p].i = 1 /\ pubs[p].list = <<b>>
        /\ box[b].ctx = "done" /\ box[b].chan = "open"
        /\ box[a].chan = "closed" /\ box[a].channel = box[b].channel
        /\ box[a].buf # <<>>

\* the mailbox is on the list of some channel of the broker
Listed(b) == \E ch \in ChannelNames : \E i \in 1..Len(channels[ch]) : channels[ch][i] = b

\* the number of mailboxes on the lists of the broker
ListedCount == Len(channels["c1"]) + Len(channels["c2"])

\* C21: once the context of a subscribe request is done (the client went
\* away, the deadline passed, the server shuts down, or a write failed and
\* the handler returned), its mailbox is eventually off the list of its
\* channel and closed and its handler has returned, and this stays so; a
\* handler returns only with its context done; the lists of the broker hold
\* exactly the mailboxes not yet closed, each once, among them those of all
\* the requests whose context is live; and a publish in its loop has only
\* open mailboxes before it.
C21_MailboxRemovedOnEveryPath ==
    /\ \A b \in Boxes :
          []<>(box[b].ctx = "done" =>
                  (box[b].chan = "closed" /\ ~Listed(b) /\ box[b].handler = "returned"))
    /\ [](\A b \in Boxes :
            /\ box[b].handler = "returned" => box[b].ctx = "done"
            /\ Listed(b) <=> box[b].chan = "open"
            /\ (box[b].chan # "none" /\ box[b].ctx = "live") => Listed(b))
    /\ [](ListedCount = Cardinality({b \in Boxes : box[b].chan = "open"}))
    /\ [](\A p \in Publishers : \A i \in 1..Len(pubs[p].list) :
            (pubs[p].pc = "send" /\ i >= pubs[p].i) => box[pubs[p].list[i]].chan = "open")
    /\ [][\A b \in Boxes : box[b].chan = "closed" =>
            (box'[b].chan = "closed" /\ ~Listed(b)' /\ box'[b].ctx = "done")
         ]_vars

\* a write to the first client failed with a message still in its mailbox:
\* the handler has returned and the mailbox is closed and off the list,
\* which still holds the second mailbox of the channel
C21_Witness ==
    /\ box[1].handler = "returned" /\ box[1].chan = "closed" /\ box[1].buf # <<>>
    /\ box[2].chan = "open" /\ box[2].channel = box[1].channel
    /\ channels[box[1].channel] = <<2>>

\* C22: the hook of the database writes the final snapshot only when no
\* handler is in flight; so when the process ends after a PUT without ttl was
\* answered 200 or 201 as the last request, the snapshot holds the entry of
\* that PUT.
C22_HookAfterHandlers ==
    /\ [][Shutdown => http.pc = "idle"]_vars
    /\ [](\A k \in OneKey :
            (/\ phase = "exited"
             /\ http.route = PutKey /\ http.key = k /\ http.status \in {200, 201}
             /\ NoExpiry(database, k))
            => /\ k \in DOMAIN UnmarshalStore(snapshotFile)
               /\ UnmarshalStore(snapshotFile)[k] = database[k])

\* C23: every response of a key, ttl or publish route with a status of 400
\* or more has as body the envelope {"error": message} with a message that
\* is not empty; so has the 404 of a DELETE of a key that is not stored.
C23_ErrorEnvelope ==
    http.status >= 400 => (http.body.kind = "error" /\ http.body.error # "")

\* the step answers a request without a call of the database or the broker
AnsweredAtOnce == http.pc = "idle" /\ http'.pc = "idle" /\ http' # http

\* C24: the handler answers from what the database call returned: PUT 200
\* if Put returned true (the key was stored before) and 201 otherwise, both
\* with {}; DELETE 200 if Delete returned true and 404 otherwise; GET on
\* keys and on ttl 200 with the value or the ttl if the call returned
\* present and 404 otherwise; POST 201 with the generated key if Create
\* returned created. A POST or PUT whose body is no JSON or has an empty
\* value, and a publish whose body is no JSON or has an empty message, is
\* answered 400 in a step that changes nothing of the database and the
\* broker, and a database call is only made for a request that passed.
C24_StatusMapping ==
    [][/\ Respond =>
            /\ http.route = PutKey =>
                  /\ http'.status = (IF resp.ok THEN 200 ELSE 201)
                  /\ http'.body.kind = "empty"
            /\ http.route = DeleteKey =>
                  http'.status = (IF resp.ok THEN 200 ELSE 404)
            /\ http.route = GetKey =>
                  /\ http'.status = (IF resp.ok THEN 200 ELSE 404)
                  /\ resp.ok => (http'.body.kind = "value" /\ http'.body.key = http.key
                                   /\ http'.body.value = resp.value)
            /\ http.route = GetTtl =>
                  /\ http'.status = (IF resp.ok THEN 200 ELSE 404)
                  /\ resp.ok => (http'.body.kind = "ttl" /\ http'.body.key = http.key
                                   /\ http'.body.ttl = resp.ttl)
            /\ (http.route = Post /\ resp.ok) =>
                  /\ http'.status = 201
                  /\ http'.body.kind = "key" /\ http'.body.key = resp.key
            /\ http'.pc = "idle"
       /\ \A k \in OneKey : (Calling(PutKey) /\ Put(k, http.value, http.ttl)) =>
            (resp'.ok <=> load(database, k))
       /\ \A k \in OneKey : (Calling(DeleteKey) /\ Delete(k)) =>
            (resp'.ok <=> load(database, k))
       /\ \A route \in BodyRoutes, key \in OneKey \cup {""}, body \in Bodies :
            ((~body.json \/ body.value = "") /\ Receive(route, key, body)) =>
                /\ http'.status = 400 /\ http'.pc = "idle"
                /\ UNCHANGED <<database, ttl, newItem, aof, resp>>
       /\ (AnsweredAtOnce /\ http'.route # Publish) => http'.status = 400
       /\ \A body \in PublishBodies :
            ((~body.json \/ body.message = "") /\ PublishReject(body)) =>
                /\ http'.status = 400 /\ http'.route = Publish
                /\ UNCHANGED brokerVars
       /\ (resp' # resp /\ resp' # NoResp) =>
            /\ http.pc = "decoded"
            /\ http.route \in BodyRoutes => http.value # ""
      ]_vars

\* a PUT on a key that is stored was answered 200 with {}
C24_Witness ==
    /\ http.pc = "idle" /\ http.route = PutKey
    /\ http.status = 200 /\ http.body.kind = "empty"
    /\ resp.op = "Put" /\ resp.ok
    /\ load(database, http.key)

\* C25: whatever the file system does, a Put stores the entry with its
\* expiry, pushes it onto the heap and returns whether the key was stored;
\* a Create of a free key stores, pushes and returns true, and on a stored
\* key leaves the store and returns false; a Delete removes the key and
\* returns whether it was stored; the cleanup routine removes the expired
\* entry it popped; and the snapshot routine leaves the store, the heap and
\* the signal as they are and releases the lock. When the file system fails
\* the log gains no line, and the lock is not held after any of the calls.
C25_FailureKeepsMemory ==
    [][/\ \A key \in OneKey, value \in OneValue, t \in FailTtls :
            (Answers("Put", key) /\ Put(key, value, t)) =>
                /\ resp'.ok = (key \in DOMAIN database)
                /\ key \in DOMAIN database'
                /\ database'[key].value = value
                /\ database'[key].ttl = (IF t.isNil THEN Nil ELSE Ptr(t.val + now))
                /\ ~t.isNil => \E i \in 1..Len(ttl') :
                                   ttl'[i] = [key |-> key, ttl |-> t.val + now]
                /\ mu' = "unlocked"
                /\ disk # "ok" => aof' = aof
       /\ \A id \in OneKey, value \in OneValue, t \in FailTtls :
            (Answers("Create", id) /\ Create(value, t, id)) =>
                /\ resp'.ok = (id \notin DOMAIN database)
                /\ id \in DOMAIN database'
                /\ id \in DOMAIN database => database'[id] = database[id]
                /\ id \notin DOMAIN database =>
                      /\ database'[id].value = value
                      /\ database'[id].ttl = (IF t.isNil THEN Nil ELSE Ptr(t.val + now))
                      /\ ~t.isNil => \E i \in 1..Len(ttl') :
                                         ttl'[i] = [key |-> id, ttl |-> t.val + now]
                /\ mu' = "unlocked"
                /\ disk # "ok" => aof' = aof
       /\ \A key \in OneKey :
            (Answers("Delete", key) /\ Delete(key)) =>
                /\ resp'.ok = (key \in DOMAIN database)
                /\ key \notin DOMAIN database'
                /\ mu' = "unlocked"
                /\ disk # "ok" => aof' = aof
       /\ CleanupPop =>
            /\ Len(ttl') = Len(ttl) - 1
            /\ \A key \in DOMAIN database :
                  IF database[key].ttl = Ptr(ttl[1].ttl) /\ key = ttl[1].key
                     THEN key \notin DOMAIN database'
                     ELSE key \in DOMAIN database' /\ database'[key] = database[key]
            /\ disk # "ok" => aof' = aof
       /\ PersistWrite =>
            /\ UNCHANGED <<database, ttl, newItem>>
            /\ mu' = "unlocked"
      ]_vars

\* a Put with a ttl has stored its entry and pushed it while the files
\* could not be opened: the log is empty and no snapshot was written
C25_Witness ==
    /\ disk = "noopen" /\ aof = <<>> /\ snapshotFile = NoFile
    /\ resp.op = "Put" /\ ~resp.ok
    /\ load(database, resp.key) /\ database[resp.key].ttl = Ptr(1)
    /\ Len(ttl) = 1 /\ ttl[1].key = resp.key
    /\ mu = "unlocked" /\ persister = "idle"

\* C26: a remaining value returned by GetTTL with present is strictly
\* positive. The value is the expiry minus the second reading of the
\* clock, which may be later than the reading the entry was judged by.
C26_RemainingPositive ==
    (resp.op = "GetTTL" /\ resp.ok /\ ~resp.ttl.isNil) => resp.ttl.val > 0

\* C27: a Create that returns false, its id being stored already, leaves
\* the store, the heap, the signal and the log as they are. The code
\* appends the PUT line of the call to the log before it returns.
C27_CollisionChangesNothing ==
    [][\A value \in AofValues, t \in TtlArgs, id \in Keys :
          (Answers("Create", id) /\ ~resp'.ok /\ Create(value, t, id)) =>
              UNCHANGED <<database, ttl, newItem, aof>>
      ]_vars

\* C28: every stored entry with an expiry e has an entry (key, e) in the
\* heap, in every state reached from the empty database by Create, Put,
\* Delete and the cleanup routine.
C28_ExpiringEntriesIndexed ==
    \A k \in DOMAIN database :
        ~database[k].ttl.isNil =>
            \E i \in 1..Len(ttl) : ttl[i] = ttlHeapData(k, database[k].ttl.val)

\* a key was written twice with different expiries: the heap holds the
\* entry of the stored expiry next to a stale one of the same key
C28_Witness ==
    /\ Len(ttl) = 2
    /\ ttl[1].key = ttl[2].key /\ ttl[1].ttl # ttl[2].ttl
    /\ load(database, ttl[1].key)
    /\ database[ttl[1].key].ttl = Ptr(ttl[2].ttl)
    /\ cleaner.pc = "drain"

C30_SignalNeverBlocks ==
    /\ [](newItem \in {0, 1})
    /\ [](\A c \in Clients :
            /\ (writer[c].pc = "appended" /\ writer[c].op = "Put") => ENABLED PutStore(c)
            /\ (writer[c].pc = "locked" /\ writer[c].op = "Create") => ENABLED CreateStore(c))
    /\ []((cleaner.pc \in {"recv", "select"} /\ \A c \in Clients : writer[c].pc = "idle")
            => mu = "unlocked")
    /\ [][\A c \in Clients :
            /\ (PutStore(c) /\ ~writer[c].ttl.isNil) => newItem' = 1
            /\ (CreateStore(c) /\ writer'[c].pc = "stored" /\ ~writer[c].ttl.isNil)
                  => newItem' = 1
            /\ (PutStore(c) \/ CreateStore(c)) => newItem' >= newItem
      ]_vars

\* two writes with a ttl have pushed while the cleanup routine waited for
\* the signal of an empty heap: the second send found the first signal
\* pending, and both calls have returned
C30_Witness ==
    /\ cleaner.pc = "recv"
    /\ newItem = 1
    /\ Len(ttl) = 2 /\ Len(applied) = 2
    /\ \A c \in Clients : writer[c].pc = "idle"
    /\ mu = "unlocked"

\* C31: no signal of a new entry is lost. While the cleanup routine waits
\* for the signal of an empty heap and the heap is not empty, or waits for a
\* timer and the heap holds an entry that expires before it, a signal is
\* pending; and under fair scheduling of the routine, when the first entry
\* of the heap has expired, the routine pops until the heap holds no
\* expired first entry, whether or not the timer it sleeps on ever fires.
C31_NoLostWakeup ==
    /\ []((cleaner.pc = "recv" /\ Len(ttl) > 0) => newItem = 1)
    /\ []((cleaner.pc = "select" /\ Len(ttl) > 0)
            => (Peak(ttl).ttl < cleaner.timer => newItem = 1))
    /\ (IF Len(ttl) > 0 THEN Peak(ttl).ttl <= now ELSE FALSE)
          ~> (IF Len(ttl) > 0 THEN Peak(ttl).ttl > now ELSE TRUE)

\* the routine sleeps on the timer of an entry that expires later, the
\* timer is still ahead, and a write has pushed an entry that has expired
\* and is still stored: its signal is pending
C31_Witness ==
    /\ cleaner.pc = "select" /\ cleaner.timer > now
    /\ Len(ttl) = 2 /\ ttl[1].ttl <= now /\ ttl[2].ttl = cleaner.timer
    /\ Unmodified(database, ttl[1].key, ttl[1].ttl)
    /\ newItem = 1

\* C32: for every key at most one entry of the heap has the key and the
\* expiry the key is stored with. Two Puts on a key that give the same
\* expiry push two such entries.
C32_AtMostOneLive ==
    \A k \in Keys :
        Cardinality({i \in 1..Len(ttl) :
                        ttl[i].key = k /\ Unmodified(database, k, ttl[i].ttl)}) <= 1

\* C33: a Get and both halves of a GetTTL leave the store, the heap, the
\* pending signal and the log as they are, whatever they return, also for
\* a key whose entry has expired and is still stored.
C33_ReadsChangeNothing ==
    [][/\ \A k \in Keys : (Answers("Get", k) /\ Get(k)) =>
            UNCHANGED <<database, ttl, newItem, aof>>
       /\ \A k \in Keys : ((resp' # resp \/ reader' # reader) /\ GetTTLLoad(k)) =>
            UNCHANGED <<database, ttl, newItem, aof>>
       /\ GetTTLRemaining => UNCHANGED <<database, ttl, newItem, aof>>
      ]_vars

\* a Get has reported absent for a key whose expired entry is still in the
\* store and in the heap, and whose PUT line is the only line of the log
C33_Witness ==
    /\ resp.op = "Get" /\ ~resp.ok
    /\ load(database, resp.key)
    /\ ~database[resp.key].ttl.isNil /\ database[resp.key].ttl.val <= now
    /\ Len(ttl) = 1 /\ ttl[1].key = resp.key
    /\ Len(aof) = 1 /\ aof[1][1] = "PUT" /\ aof[1][2] = resp.key

\* C34: a Get and a GetTTL see the store between two writes. They take
\* their steps only while no Create, Put or Delete is between its Lock and
\* its Unlock and the cleanup routine is not in its drain; the store does
\* not change between the two steps of a GetTTL; what they return is the
\* value and the expiry of the entry stored in that state; and a Put
\* stores the value and the expiry of its call in one step.
C34_ReadsSeeWholeEntries ==
    [][/\ \A k \in Keys : (Answers("Get", k) /\ Get(k)) =>
            /\ \A c \in Clients : writer[c].pc = "idle"
            /\ cleaner.pc # "drain" /\ evicting = ""
            /\ resp'.ok => resp'.value = database[k].value
       /\ \A k \in Keys : ((resp' # resp \/ reader' # reader) /\ GetTTLLoad(k)) =>
            /\ \A c \in Clients : writer[c].pc = "idle"
            /\ cleaner.pc # "drain" /\ evicting = ""
       /\ reader.pc = "remaining" =>
            /\ database' = database
            /\ \A c \in Clients : writer'[c].pc = "idle"
            /\ cleaner'.pc # "drain"
       /\ GetTTLRemaining =>
            /\ load(database, reader.key)
            /\ resp'.ttl = Ptr(database[reader.key].ttl.val - now)
       /\ \A c \in Clients : PutStore(c) =>
            database'[writer[c].key] =
                databaseEntry(writer[c].value, expiry(writer[c].ttl, now))
      ]_vars

\* a GetTTL has returned the remaining time of a key that two Puts with
\* different ttls have written: it is that of the entry now stored
C34_Witness ==
    /\ resp.op = "GetTTL" /\ resp.ok /\ ~resp.ttl.isNil
    /\ Len(applied) = 2
    /\ applied[1][1] = "PUT" /\ applied[1][2] = resp.key
    /\ applied[2][1] = "PUT" /\ applied[2][2] = resp.key
    /\ applied[1][4] # applied[2][4]
    /\ load(database, resp.key)
    /\ resp.ttl = Ptr(database[resp.key].ttl.val - now)

\* the goroutines that hold the write lock of the database
Holders ==
    {c \in OneClient : writer[c].pc # "idle"}
        \cup (IF cleaner.pc = "drain" THEN {"ttlCleanup"} ELSE {})
        \cup (IF persister = "locked" THEN {"persistDatabase"} ELSE {})

\* C35: the server never deadlocks. The write lock of the database is held
\* by exactly one of a write call, the drain of the cleanup routine and the
\* snapshot, and never by the cleanup routine while it waits for the signal
\* or the timer; the read lock by a GetTTL between its two steps; whoever
\* holds a lock of the database or of the broker can take its next step; no
\* step works on the database and on the broker; and under fair scheduling
\* of the holders both locks are free again and again, with every write
\* call, snapshot and publish that had begun returned, so that a call that
\* waits gets its turn.
C35_NoDeadlock ==
    /\ []((mu = "locked") <=> (Cardinality(Holders) = 1))
    /\ [](Cardinality(Holders) <= 1)
    /\ []((mu = "rlocked") <=> (reader.pc = "remaining"))
    /\ [](cleaner.pc \in {"recv", "select"} => "ttlCleanup" \notin Holders)
    /\ [](mu = "rlocked" => ENABLED GetTTLRemaining)
    /\ [](\A c \in OneClient : writer[c].pc # "idle" =>
             ENABLED (CreateStore(c) \/ CreateAppend(c) \/ PutAppend(c) \/ PutStore(c)
                        \/ DeleteAppend(c) \/ DeleteStore(c)))
    /\ [](cleaner.pc = "drain" =>
             ENABLED (CleanupPopAppend \/ CleanupPopDelete \/ CleanupPopStale
                        \/ (evicting = "" /\ CleanupUnlock)))
    /\ [](persister = "locked" => ENABLED PersistWrite)
    /\ [](\A p \in OnePublisher : pubs[p].pc = "send" =>
             ENABLED (PublishSend(p) \/ PublishDone(p)))
    /\ [][/\ (dbVars' # dbVars \/ writer' # writer \/ persister' # persister)
                => UNCHANGED brokerVars
          /\ brokerVars' # brokerVars
                => UNCHANGED <<dbVars, writer, persister, aof, snapshotFile>>
         ]_vars
    /\ []<>(mu = "unlocked")
    /\ []<>(brokerMu = 0)

\* a publish holds the read lock of the broker in the middle of its loop
\* while the snapshot holds the write lock of the database and the cleanup
\* routine, its timer fired, waits for that lock
C35_Witness ==
    /\ brokerMu > 0 /\ \E p \in OnePublisher : pubs[p].pc = "send"
    /\ mu = "locked" /\ persister = "locked"
    /\ cleaner.pc = "lock"

\* C36: every snapshot is the store and the heap of one state between two
\* operations. The snapshot is written while no Create, Put or Delete is
\* between its Lock and its Unlock and the cleanup routine is not in its
\* drain; nothing changes the store or the heap between the Lock of the
\* snapshot and its write; the document holds the store and the heap of
\* that state; and in every document each member of dbStore with a ttl has
\* an element of ttlHeap with its key and ttl, which a store without its
\* push and a pop without its delete would not have.
C36_SnapshotIsConsistentCut ==
    /\ [][/\ PersistWrite =>
                /\ \A c \in OneClient : writer[c].pc = "idle"
                /\ evicting = "" /\ cleaner.pc # "drain"
                /\ snapshotFile'.written
                /\ UnmarshalStore(snapshotFile') = database
                /\ UnmarshalHeap(snapshotFile') = ttl
          /\ persister = "locked" => UNCHANGED <<database, ttl>>
         ]_vars
    /\ [](\A i \in 1..Len(snapshotFile.dbStore) :
             ~snapshotFile.dbStore[i].ttl.null =>
                 \E j \in 1..Len(snapshotFile.ttlHeap) :
                     /\ snapshotFile.ttlHeap[j].key = snapshotFile.dbStore[i].key
                     /\ snapshotFile.ttlHeap[j].ttl = snapshotFile.dbStore[i].ttl)

\* a snapshot with an entry and its heap element was written, and now a
\* Put on that key has stored a later expiry and has yet to push it
C36_Witness ==
    /\ snapshotFile.written
    /\ Len(snapshotFile.dbStore) = 1 /\ Len(snapshotFile.ttlHeap) = 1
    /\ \E c \in OneClient :
          /\ writer[c].op = "Put" /\ writer[c].pc = "loaded"
          /\ writer[c].key = snapshotFile.dbStore[1].key
          /\ database[writer[c].key].ttl = Ptr(snapshotFile.dbStore[1].ttl.num + 1)
    /\ Len(ttl) = 1

\* C37: a Delete(k) returns false whenever a Get(k) in the state it is
\* called in reports absent. For a key whose entry has expired and is still
\* stored the Delete returns true.
C37_DeleteAgreesWithGet ==
    [][\A k \in Keys :
          (Answers("Delete", k) /\ Delete(k)) =>
              (~GetPresent(database, now, k) => ~resp'.ok)
      ]_vars

\* C38: the removal of a mailbox leaves the list of its channel as the list
\* before without that mailbox, the others once each and in the order they
\* had, and leaves the lists of the other channels and the other mailboxes
\* as they are; it is made while no publish is in its loop, so that the list
\* a publish walks is the list of its channel all along; no list holds a
\* mailbox twice, and no mailbox holds a message twice.
C38_RemovesOnlyThatMailbox ==
    /\ [][\A b \in ThreeBoxes : Unsubscribe(b) =>
            /\ channels'[box[b].channel] =
                  SelectSeq(channels[box[b].channel], LAMBDA x : x # b)
            /\ \A ch \in ChannelNames \ {box[b].channel} : channels'[ch] = channels[ch]
            /\ \A a \in ThreeBoxes \ {b} : box'[a] = box[a]
            /\ \A p \in Publishers : pubs[p].pc = "idle"
         ]_vars
    /\ [](\A ch \in ChannelNames : \A i \in 1..Len(channels[ch]) :
             \A j \in 1..Len(channels[ch]) : channels[ch][i] = channels[ch][j] => i = j)
    /\ [](\A p \in Publishers : pubs[p].pc = "send" =>
             pubs[p].list = channels[pubs[p].channel])
    /\ [](\A b \in ThreeBoxes : \A i \in 1..Len(box[b].buf) :
             \A j \in 1..Len(box[b].buf) : box[b].buf[i].id = box[b].buf[j].id => i = j)

\* the first of three subscribers of a channel is gone, the other two are
\* listed in the order they came, and a publish after the removal has put
\* its message in their mailboxes and not in the closed one
C38_Witness ==
    /\ box[1].chan = "closed" /\ box[1].buf = <<>>
    /\ \E ch \in ChannelNames : channels[ch] = <<2, 3>>
    /\ Len(box[2].buf) = 1 /\ box[3].buf = box[2].buf

\* C39: with a startup file that cannot be read or is not a snapshot (no
\* JSON that Unmarshal accepts, or an object without dbStore or ttlHeap),
\* the process ends with the error of NewInMemoryDatabase: no goroutine of
\* the database is started and no request is answered. An object without
\* the members is accepted without an error.
C39_BadSnapshotStopsStartup ==
    (disk = "noopen" \/ ~startupFile.json \/ ~startupFile.hasStore \/ ~startupFile.hasHeap)
        => (phase \in {"down", "failed"} /\ cleaner.pc = "none" /\ resp = NoResp)
====
